---- MODULE Spec2Model ----
(***************************************************************************)
(* Model of the scrape-profile edge function                               *)
(* (supabase/functions/scrape-profile/index.ts): the platform classifier,  *)
(* the scrape stage, the extraction stage and the response normalizer.     *)
(*                                                                         *)
(* Strings are TLA+ strings (sequences of characters).  A JavaScript value *)
(* that can come out of JSON.parse is a record [t, b, n2, s]:              *)
(*   t  - the type tag: "absent" (an undefined property), "null", "bool",  *)
(*        "num", "nan" (a number that is NaN), "str", "arr", "obj";        *)
(*   b  - the value of a boolean;                                          *)
(*   n2 - TWICE the value of a number, so that halves are representable    *)
(*        (n2 = 5 is 2.5, n2 = -10 is -5);                                 *)
(*   s  - the characters of a string; for an array, its String() form      *)
(*        (the elements joined by ","), and n2 is then its length.         *)
(* The backtick cannot be written in a TLA+ string: the apostrophe stands  *)
(* for it, so a code fence is written as three apostrophes.                *)
(***************************************************************************)
EXTENDS Integers, Sequences, FiniteSets, TLC

(***************************************************************************)
(* String helpers (String.prototype.includes / startsWith / replace /      *)
(* split / match as the handler uses them)                                 *)
(***************************************************************************)
CharAt(s, i) == SubSeq(s, i, i)

Includes(s, sub) ==
    \E i \in 1..(Len(s) - Len(sub) + 1) : SubSeq(s, i, i + Len(sub) - 1) = sub

StartsWith(s, pre) == Len(s) >= Len(pre) /\ SubSeq(s, 1, Len(pre)) = pre

\* position of the first occurrence of the one-character string c, 0 if none
FirstIndexOf(s, c) ==
    IF \E i \in 1..Len(s) : CharAt(s, i) = c
    THEN CHOOSE i \in 1..Len(s) :
            /\ CharAt(s, i) = c
            /\ \A j \in 1..(i - 1) : CharAt(s, j) # c
    ELSE 0

\* s.replace(c, ''): the first occurrence of c is removed, wherever it is
ReplaceFirst(s, c) ==
    LET i == FirstIndexOf(s, c)
    IN  IF i = 0 THEN s ELSE SubSeq(s, 1, i - 1) \o SubSeq(s, i + 1, Len(s))

Digits == {"0", "1", "2", "3", "4", "5", "6", "7", "8", "9"}

\* (username.match(/\d/g) || []).length
DigitCount(s) == Cardinality({i \in 1..Len(s) : CharAt(s, i) \in Digits})

\* s.split('/').filter(Boolean): the non-empty segments between slashes
RECURSIVE SplitPath(_)
SplitPath(s) ==
    IF s = "" THEN <<>>
    ELSE LET i == FirstIndexOf(s, "/")
         IN  IF i = 0 THEN <<s>>
             ELSE IF i = 1 THEN SplitPath(SubSeq(s, 2, Len(s)))
             ELSE <<SubSeq(s, 1, i - 1)>> \o SplitPath(SubSeq(s, i + 1, Len(s)))

(***************************************************************************)
(* detectPlatform                                                          *)
(***************************************************************************)
detectPlatformSwapped(url) ==
    IF Includes(url, "twitter.com") \/ Includes(url, "x.com") THEN "Twitter/X"
    ELSE IF Includes(url, "instagram.com") THEN "Instagram"
    ELSE IF Includes(url, "tiktok.com") THEN "TikTok"
    ELSE IF Includes(url, "facebook.com") THEN "Facebook"
    ELSE IF Includes(url, "linkedin.com") THEN "LinkedIn"
    ELSE IF Includes(url, "reddit.com") THEN "Reddit"
    ELSE IF Includes(url, "youtube.com") THEN "YouTube"
    ELSE "Unknown"

detectPlatform(url) ==
    IF Includes(url, "instagram.com") THEN "Instagram"
    ELSE IF Includes(url, "twitter.com") \/ Includes(url, "x.com") THEN "Twitter/X"
    ELSE IF Includes(url, "tiktok.com") THEN "TikTok"
    ELSE IF Includes(url, "facebook.com") THEN "Facebook"
    ELSE IF Includes(url, "linkedin.com") THEN "LinkedIn"
    ELSE IF Includes(url, "reddit.com") THEN "Reddit"
    ELSE IF Includes(url, "youtube.com") THEN "YouTube"
    ELSE "Unknown"

(***************************************************************************)
(* extractUsername                                                         *)
(*                                                                         *)
(* new URL(url) is modelled for the two shapes of input the model draws:   *)
(* a string starting with "http://" or "https://" and a non-empty host     *)
(* parses, and its pathname runs from the first "/" after the host to the  *)
(* first "?" or "#"; any other string of the model has no scheme and makes *)
(* the constructor throw.                                                  *)
(***************************************************************************)
SchemeLen(url) ==
    IF StartsWith(url, "https://") THEN 8
    ELSE IF StartsWith(url, "http://") THEN 7
    ELSE 0

\* the text after the scheme
AfterScheme(url) == SubSeq(url, SchemeLen(url) + 1, Len(url))

\* index of the first character of rest that ends the host, Len+1 if none
HostEnd(rest) ==
    IF \E i \in 1..Len(rest) : CharAt(rest, i) \in {"/", "?", "#"}
    THEN CHOOSE i \in 1..Len(rest) :
            /\ CharAt(rest, i) \in {"/", "?", "#"}
            /\ \A j \in 1..(i - 1) : CharAt(rest, j) \notin {"/", "?", "#"}
    ELSE Len(rest) + 1

UrlParses(url) == SchemeLen(url) > 0 /\ HostEnd(AfterScheme(url)) > 1

\* parsed.pathname
Pathname(url) ==
    LET rest  == AfterScheme(url)
        h     == HostEnd(rest)
        tail  == SubSeq(rest, h, Len(rest))
        stop  == IF \E i \in 1..Len(tail) : CharAt(tail, i) \in {"?", "#"}
                 THEN CHOOSE i \in 1..Len(tail) :
                         /\ CharAt(tail, i) \in {"?", "#"}
                         /\ \A j \in 1..(i - 1) : CharAt(tail, j) \notin {"?", "#"}
                 ELSE Len(tail) + 1
        p     == SubSeq(tail, 1, stop - 1)
    IN  IF p = "" THEN "/" ELSE p

skip == {"user", "users", "u", "profile", "in", "channel", "c"}

extractUsernameNoFallback(url) ==
    IF ~UrlParses(url) THEN ""
    ELSE LET parts == SplitPath(Pathname(url))
             good  == {i \in 1..Len(parts) :
                          parts[i] \notin skip /\ ~StartsWith(parts[i], "@")}
             username ==
                 IF good # {}
                 THEN parts[CHOOSE i \in good : \A j \in good : i <= j]
                 ELSE IF Len(parts) > 0 THEN parts[1]
                 ELSE ""
         IN  ReplaceFirst(username, "@")

\* a selection that ignores the stoplist and the '@' test
SelectSegmentFirst(parts) ==
    IF Len(parts) > 0 THEN parts[1] ELSE "unknown"

\* parts.find(p => !skip.includes(p) && !p.startsWith('@')) ?? parts[0]
\*     ?? 'unknown'
SelectSegment(parts) ==
    LET good == {i \in 1..Len(parts) :
                    parts[i] \notin skip /\ ~StartsWith(parts[i], "@")}
    IN  IF good # {}
        THEN parts[CHOOSE i \in good : \A j \in good : i <= j]
        ELSE IF Len(parts) > 0 THEN parts[1]
        ELSE "unknown"

\* username.replace('@', ''): a string pattern replaces its first occurrence
StripAt(username) == ReplaceFirst(username, "@")

\* parsed.pathname.split('/').filter(Boolean)
PathParts(url) == SplitPath(Pathname(url))

extractUsername(url) ==
    IF ~UrlParses(url) THEN "unknown"
    ELSE StripAt(SelectSegment(PathParts(url)))

(***************************************************************************)
(* JavaScript values                                                       *)
(***************************************************************************)
JAbsent  == [t |-> "absent", b |-> FALSE, n2 |-> 0, s |-> ""]
JNull    == [t |-> "null", b |-> FALSE, n2 |-> 0, s |-> ""]
JNaN     == [t |-> "nan", b |-> FALSE, n2 |-> 0, s |-> ""]
JObj     == [t |-> "obj", b |-> FALSE, n2 |-> 0, s |-> ""]
JBool(x) == [t |-> "bool", b |-> x, n2 |-> 0, s |-> ""]
JNum2(h) == [t |-> "num", b |-> FALSE, n2 |-> h, s |-> ""]
JInt(k)  == JNum2(2 * k)
JStr(x)  == [t |-> "str", b |-> FALSE, n2 |-> 0, s |-> x]
JArr(x, n) == [t |-> "arr", b |-> FALSE, n2 |-> n, s |-> x]

\* ToBoolean, as used by ||, ! and if
Truthy(v) ==
    CASE v.t \in {"absent", "null", "nan"} -> FALSE
      [] v.t = "bool" -> v.b
      [] v.t = "num"  -> v.n2 # 0
      [] v.t = "str"  -> v.s # ""
      [] OTHER        -> TRUE

\* the test of ?? and ?.
Nullish(v) == v.t \in {"absent", "null"}

\* a ?? b
Coalesce(a, b) == IF Nullish(a) THEN b ELSE a

DigitVal(c) == CHOOSE d \in 0..9 : CharAt("0123456789", d + 1) = c

RECURSIVE DigitsToInt(_)
DigitsToInt(s) ==
    IF s = "" THEN 0
    ELSE 10 * DigitsToInt(SubSeq(s, 1, Len(s) - 1)) + DigitVal(CharAt(s, Len(s)))

\* ToNumber of a string over the model's alphabet (no sign, point, blank or
\* exponent occurs in the strings the model draws for a numeric field)
StrToNumber(s) ==
    IF s = "" THEN JInt(0)
    ELSE IF \A i \in 1..Len(s) : CharAt(s, i) \in Digits THEN JInt(DigitsToInt(s))
    ELSE JNaN

\* ToNumber, the coercion Math.round applies to its argument
ToNumber(v) ==
    CASE v.t = "num"  -> v
      [] v.t = "null" -> JInt(0)
      [] v.t = "bool" -> IF v.b THEN JInt(1) ELSE JInt(0)
      [] v.t = "str"  -> StrToNumber(v.s)
      [] v.t = "arr"  -> StrToNumber(v.s)
      [] OTHER        -> JNaN

\* Math.round: the nearest integer, halves towards +infinity
MathRound(v) ==
    LET x == ToNumber(v)
    IN  IF x.t = "nan" THEN JNaN ELSE JInt((x.n2 + 1) \div 2)

\* Math.max(0, x) of a number x
MathMax0NoClamp(x) == x

MathMax0(x) ==
    IF x.t = "nan" THEN JNaN
    ELSE IF x.n2 < 0 THEN JInt(0) ELSE x

\* JSON.stringify of one property value: NaN is written as null
Stringify(v) == IF v.t = "nan" THEN JNull ELSE v

(***************************************************************************)
(* The extracted record: the top-level properties the handler reads, and   *)
(* the three properties of its username_flags object (meaningful when the  *)
(* username_flags property is an object).                                  *)
(***************************************************************************)
CountKeys == {"followers_count", "following_count", "posts_count",
              "bio_length", "account_age"}

TopKeys == CountKeys \cup {"username", "has_profile_pic", "username_flags",
                           "platform", "confidence", "notes"}

FlagKeys == {"numbers_heavy", "random_characters", "very_short"}

\* an object literal: the listed properties, every other property absent
ObjectOf(top, uf) ==
    [kind |-> "obj",
     top  |-> [k \in TopKeys |-> IF k \in DOMAIN top THEN top[k] ELSE JAbsent],
     uf   |-> [k \in FlagKeys |-> IF k \in DOMAIN uf THEN uf[k] ELSE JAbsent]]

\* a JSON document that is not an object (null, a number, a string, an
\* array, a boolean): it has none of the named properties
NonObject ==
    [kind |-> "other",
     top  |-> [k \in TopKeys |-> JAbsent],
     uf   |-> [k \in FlagKeys |-> JAbsent]]

DefaultExtractedNoPic(usernameFromUrl, platform) ==
    ObjectOf("username" :> JStr(usernameFromUrl)
               @@ "followers_count" :> JInt(0)
               @@ "following_count" :> JInt(0)
               @@ "posts_count" :> JInt(0)
               @@ "bio_length" :> JInt(0)
               @@ "account_age" :> JInt(0)
               @@ "has_profile_pic" :> JBool(FALSE)
               @@ "username_flags" :> JObj
               @@ "platform" :> JStr(platform)
               @@ "confidence" :> JStr("low")
               @@ "notes" :> JStr("Could not extract data from the page"),
             "numbers_heavy" :> JBool(FALSE)
               @@ "random_characters" :> JBool(FALSE)
               @@ "very_short" :> JBool(FALSE))

\* a default whose platform is always 'Unknown'
DefaultExtractedUnknownPlatform(usernameFromUrl, platform) ==
    ObjectOf("username" :> JStr(usernameFromUrl)
               @@ "followers_count" :> JInt(0)
               @@ "following_count" :> JInt(0)
               @@ "posts_count" :> JInt(0)
               @@ "bio_length" :> JInt(0)
               @@ "account_age" :> JInt(0)
               @@ "has_profile_pic" :> JBool(TRUE)
               @@ "username_flags" :> JObj
               @@ "platform" :> JStr("Unknown")
               @@ "confidence" :> JStr("low")
               @@ "notes" :> JStr("Could not extract data from the page"),
             "numbers_heavy" :> JBool(FALSE)
               @@ "random_characters" :> JBool(FALSE)
               @@ "very_short" :> JBool(FALSE))

\* let extractedData = { username: usernameFromUrl, ... }
DefaultExtracted(usernameFromUrl, platform) ==
    ObjectOf("username" :> JStr(usernameFromUrl)
               @@ "followers_count" :> JInt(0)
               @@ "following_count" :> JInt(0)
               @@ "posts_count" :> JInt(0)
               @@ "bio_length" :> JInt(0)
               @@ "account_age" :> JInt(0)
               @@ "has_profile_pic" :> JBool(TRUE)
               @@ "username_flags" :> JObj
               @@ "platform" :> JStr(platform)
               @@ "confidence" :> JStr("low")
               @@ "notes" :> JStr("Could not extract data from the page"),
             "numbers_heavy" :> JBool(FALSE)
               @@ "random_characters" :> JBool(FALSE)
               @@ "very_short" :> JBool(FALSE))

\* { ...parsed, ...extractedData }: the spread the other way round
MergeSwapped(base, parsed) ==
    [kind |-> "obj",
     top  |-> [k \in TopKeys |->
                  IF base.top[k].t # "absent" THEN base.top[k] ELSE parsed.top[k]],
     uf   |-> IF base.top["username_flags"].t # "absent"
              THEN base.uf ELSE parsed.uf]

\* { ...extractedData, ...parsed }: a property of parsed replaces the whole
\* property of extractedData, username_flags included
Merge(base, parsed) ==
    [kind |-> "obj",
     top  |-> [k \in TopKeys |->
                  IF parsed.top[k].t # "absent" THEN parsed.top[k] ELSE base.top[k]],
     uf   |-> IF parsed.top["username_flags"].t # "absent"
              THEN parsed.uf ELSE base.uf]

(***************************************************************************)
(* Code-fence stripping and JSON.parse                                     *)
(***************************************************************************)
Fence == "'''"

FenceJson == "'''json"

\* index of the first occurrence of marker in s, 0 if none
FirstOccurrence(s, marker) ==
    IF Includes(s, marker)
    THEN CHOOSE i \in 1..(Len(s) - Len(marker) + 1) :
            /\ SubSeq(s, i, i + Len(marker) - 1) = marker
            /\ \A j \in 1..(i - 1) : SubSeq(s, j, j + Len(marker) - 1) # marker
    ELSE 0

\* s.replace(/<marker>\n?/g, ''): every occurrence of the marker, with the
\* newline that follows it if there is one, is removed
RECURSIVE StripAll(_, _)
StripAll(s, marker) ==
    LET i == FirstOccurrence(s, marker)
    IN  IF i = 0 THEN s
        ELSE LET after == i + Len(marker)
                 next  == IF after <= Len(s) /\ CharAt(s, after) = "\n"
                          THEN after + 1 ELSE after
             IN  SubSeq(s, 1, i - 1) \o StripAll(SubSeq(s, next, Len(s)), marker)

WhiteSpace == {" ", "\n", "\t", "\r"}

\* s.trim()
RECURSIVE Trim(_)
Trim(s) ==
    IF s = "" THEN s
    ELSE IF CharAt(s, 1) \in WhiteSpace THEN Trim(SubSeq(s, 2, Len(s)))
    ELSE IF CharAt(s, Len(s)) \in WhiteSpace THEN Trim(SubSeq(s, 1, Len(s) - 1))
    ELSE s

\* rawContent.replace(/'''json\n?/g, '').replace(/'''\n?/g, '').trim()
StripFences(rawContent) == Trim(StripAll(StripAll(rawContent, FenceJson), Fence))

(***************************************************************************)
(* JSON.parse on the texts the model draws: ValidTexts are the JSON        *)
(* documents (written without blanks), JSONParse gives the value of each;  *)
(* every other text of the model is not JSON and makes JSON.parse throw.   *)
(***************************************************************************)
ValidTexts ==
    { "{\"username\":\"janedoe\",\"followers_count\":1200000,\"following_count\":350,\"posts_count\":42,\"bio_length\":80,\"account_age\":900,\"has_profile_pic\":true,\"username_flags\":{\"numbers_heavy\":false,\"random_characters\":false,\"very_short\":false},\"platform\":\"Instagram\",\"confidence\":\"high\",\"notes\":\"ok\"}",
      "{\"followers_count\":-5}",
      "{\"followers_count\":2.5,\"following_count\":-2.5,\"posts_count\":-0.5,\"bio_length\":1.5,\"account_age\":-7}",
      "{\"followers_count\":\"many\"}",
      "{\"posts_count\":\"12\",\"bio_length\":null,\"account_age\":true,\"following_count\":[]}",
      "{\"account_age\":{},\"bio_length\":[7],\"posts_count\":[1,2]}",
      "{\"username\":\"john1234\"}",
      "{\"username\":\"john123\"}",
      "{\"username\":\"abc\"}",
      "{\"username\":\"abcd\"}",
      "{\"username\":\"\"}",
      "{\"username\":null}",
      "{\"username\":0}",
      "{\"username\":12345}",
      "{\"username\":[\"ab\"]}",
      "{\"username\":\"john123\",\"username_flags\":{\"numbers_heavy\":true,\"random_characters\":false,\"very_short\":false}}",
      "{\"username\":\"janedoe\",\"username_flags\":{\"numbers_heavy\":false,\"random_characters\":true,\"very_short\":true}}",
      "{\"username_flags\":null}",
      "{\"username_flags\":{\"very_short\":true}}",
      "{\"username_flags\":{\"numbers_heavy\":\"yes\",\"random_characters\":1,\"very_short\":\"no\"}}",
      "{\"username_flags\":\"none\"}",
      "{\"has_profile_pic\":false}",
      "{\"has_profile_pic\":null}",
      "{\"has_profile_pic\":0}",
      "{\"has_profile_pic\":\"no\"}",
      "{\"has_profile_pic\":\"\"}",
      "{\"platform\":\"Myspace\"}",
      "{\"confidence\":\"certain\"}",
      "{\"confidence\":null,\"notes\":5}",
      "{\"confidence\":\"medium\",\"notes\":\"partial\"}",
      "{\"notes\":\"a'''b\"}",
      "{\"notes\":\"ab\"}",
      "{}",
      "null",
      "42",
      "\"hello\"",
      "[]",
      "true" }

InvalidTexts ==
    { "{not valid json}",
      "",
      "Here is the data",
      "{\"username\":" }

JSONParse(s) ==
    CASE s = "{\"username\":\"janedoe\",\"followers_count\":1200000,\"following_count\":350,\"posts_count\":42,\"bio_length\":80,\"account_age\":900,\"has_profile_pic\":true,\"username_flags\":{\"numbers_heavy\":false,\"random_characters\":false,\"very_short\":false},\"platform\":\"Instagram\",\"confidence\":\"high\",\"notes\":\"ok\"}" ->
        ObjectOf(("username" :> JStr("janedoe") @@ "followers_count" :> JInt(1200000) @@ "following_count" :> JInt(350) @@ "posts_count" :> JInt(42) @@ "bio_length" :> JInt(80) @@ "account_age" :> JInt(900) @@ "has_profile_pic" :> JBool(TRUE) @@ "username_flags" :> JObj @@ "platform" :> JStr("Instagram") @@ "confidence" :> JStr("high") @@ "notes" :> JStr("ok")),
          ("numbers_heavy" :> JBool(FALSE) @@ "random_characters" :> JBool(FALSE) @@ "very_short" :> JBool(FALSE)))
    [] s = "{\"followers_count\":-5}" ->
        ObjectOf(("followers_count" :> JInt(-5)),
          <<>>)
    [] s = "{\"followers_count\":2.5,\"following_count\":-2.5,\"posts_count\":-0.5,\"bio_length\":1.5,\"account_age\":-7}" ->
        ObjectOf(("followers_count" :> JNum2(5) @@ "following_count" :> JNum2(-5) @@ "posts_count" :> JNum2(-1) @@ "bio_length" :> JNum2(3) @@ "account_age" :> JInt(-7)),
          <<>>)
    [] s = "{\"followers_count\":\"many\"}" ->
        ObjectOf(("followers_count" :> JStr("many")),
          <<>>)
    [] s = "{\"posts_count\":\"12\",\"bio_length\":null,\"account_age\":true,\"following_count\":[]}" ->
        ObjectOf(("posts_count" :> JStr("12") @@ "bio_length" :> JNull @@ "account_age" :> JBool(TRUE) @@ "following_count" :> JArr("", 0)),
          <<>>)
    [] s = "{\"account_age\":{},\"bio_length\":[7],\"posts_count\":[1,2]}" ->
        ObjectOf(("account_age" :> JObj @@ "bio_length" :> JArr("7", 1) @@ "posts_count" :> JArr("1,2", 2)),
          <<>>)
    [] s = "{\"username\":\"john1234\"}" ->
        ObjectOf(("username" :> JStr("john1234")),
          <<>>)
    [] s = "{\"username\":\"john123\"}" ->
        ObjectOf(("username" :> JStr("john123")),
          <<>>)
    [] s = "{\"username\":\"abc\"}" ->
        ObjectOf(("username" :> JStr("abc")),
          <<>>)
    [] s = "{\"username\":\"abcd\"}" ->
        ObjectOf(("username" :> JStr("abcd")),
          <<>>)
    [] s = "{\"username\":\"\"}" ->
        ObjectOf(("username" :> JStr("")),
          <<>>)
    [] s = "{\"username\":null}" ->
        ObjectOf(("username" :> JNull),
          <<>>)
    [] s = "{\"username\":0}" ->
        ObjectOf(("username" :> JInt(0)),
          <<>>)
    [] s = "{\"username\":12345}" ->
        ObjectOf(("username" :> JInt(12345)),
          <<>>)
    [] s = "{\"username\":[\"ab\"]}" ->
        ObjectOf(("username" :> JArr("ab", 1)),
          <<>>)
    [] s = "{\"username\":\"john123\",\"username_flags\":{\"numbers_heavy\":true,\"random_characters\":false,\"very_short\":false}}" ->
        ObjectOf(("username" :> JStr("john123") @@ "username_flags" :> JObj),
          ("numbers_heavy" :> JBool(TRUE) @@ "random_characters" :> JBool(FALSE) @@ "very_short" :> JBool(FALSE)))
    [] s = "{\"username\":\"janedoe\",\"username_flags\":{\"numbers_heavy\":false,\"random_characters\":true,\"very_short\":true}}" ->
        ObjectOf(("username" :> JStr("janedoe") @@ "username_flags" :> JObj),
          ("numbers_heavy" :> JBool(FALSE) @@ "random_characters" :> JBool(TRUE) @@ "very_short" :> JBool(TRUE)))
    [] s = "{\"username_flags\":null}" ->
        ObjectOf(("username_flags" :> JNull),
          <<>>)
    [] s = "{\"username_flags\":{\"very_short\":true}}" ->
        ObjectOf(("username_flags" :> JObj),
          ("very_short" :> JBool(TRUE)))
    [] s = "{\"username_flags\":{\"numbers_heavy\":\"yes\",\"random_characters\":1,\"very_short\":\"no\"}}" ->
        ObjectOf(("username_flags" :> JObj),
          ("numbers_heavy" :> JStr("yes") @@ "random_characters" :> JInt(1) @@ "very_short" :> JStr("no")))
    [] s = "{\"username_flags\":\"none\"}" ->
        ObjectOf(("username_flags" :> JStr("none")),
          <<>>)
    [] s = "{\"has_profile_pic\":false}" ->
        ObjectOf(("has_profile_pic" :> JBool(FALSE)),
          <<>>)
    [] s = "{\"has_profile_pic\":null}" ->
        ObjectOf(("has_profile_pic" :> JNull),
          <<>>)
    [] s = "{\"has_profile_pic\":0}" ->
        ObjectOf(("has_profile_pic" :> JInt(0)),
          <<>>)
    [] s = "{\"has_profile_pic\":\"no\"}" ->
        ObjectOf(("has_profile_pic" :> JStr("no")),
          <<>>)
    [] s = "{\"has_profile_pic\":\"\"}" ->
        ObjectOf(("has_profile_pic" :> JStr("")),
          <<>>)
    [] s = "{\"platform\":\"Myspace\"}" ->
        ObjectOf(("platform" :> JStr("Myspace")),
          <<>>)
    [] s = "{\"confidence\":\"certain\"}" ->
        ObjectOf(("confidence" :> JStr("certain")),
          <<>>)
    [] s = "{\"confidence\":null,\"notes\":5}" ->
        ObjectOf(("confidence" :> JNull @@ "notes" :> JInt(5)),
          <<>>)
    [] s = "{\"confidence\":\"medium\",\"notes\":\"partial\"}" ->
        ObjectOf(("confidence" :> JStr("medium") @@ "notes" :> JStr("partial")),
          <<>>)
    [] s = "{\"notes\":\"a'''b\"}" ->
        ObjectOf(("notes" :> JStr("a'''b")),
          <<>>)
    [] s = "{\"notes\":\"ab\"}" ->
        ObjectOf(("notes" :> JStr("ab")),
          <<>>)
    [] s = "{}" ->
        ObjectOf(<<>>,
          <<>>)
    [] s = "null" ->
        NonObject
    [] s = "42" ->
        NonObject
    [] s = "\"hello\"" ->
        NonObject
    [] s = "[]" ->
        NonObject
    [] s = "true" ->
        NonObject

IsValidJSON(s) == s \in ValidTexts

(***************************************************************************)
(* Step 1: the scrape stage                                                *)
(*                                                                         *)
(* A scrape payload (the value of scrapeRes.json()) is a record            *)
(* [isNull, success, hasData, dMarkdown, dLinks, markdown, links]:         *)
(* isNull for the JSON document null, hasData when payload.data is an      *)
(* object, dMarkdown / dLinks the properties of payload.data, markdown /   *)
(* links the properties of the payload itself.                             *)
(***************************************************************************)
EmptyMarkdown == JStr("")

EmptyLinks == JArr("", 0)

\* scrapeData.data?.markdown ?? scrapeData.markdown ?? ''
PayloadMarkdown(p) ==
    Coalesce(Coalesce(IF p.hasData THEN p.dMarkdown ELSE JAbsent, p.markdown),
             EmptyMarkdown)

\* scrapeData.data?.links ?? scrapeData.links ?? []
PayloadLinks(p) ==
    Coalesce(Coalesce(IF p.hasData THEN p.dLinks ELSE JAbsent, p.links),
             EmptyLinks)

\* the catch of the scrape try block: the exception is swallowed and the two
\* locals keep the values they had
ScrapeCatchRethrows(markdown, links) ==
    [caught |-> FALSE, markdown |-> markdown, links |-> links]

ScrapeCatch(markdown, links) ==
    [caught |-> TRUE, markdown |-> markdown, links |-> links]

\* a success test that looks at the HTTP status only
ScrapeBodyOkOnly(ok, p) ==
    IF p.isNull
    THEN ScrapeCatch(EmptyMarkdown, EmptyLinks)
    ELSE IF ok
    THEN [caught |-> TRUE, markdown |-> PayloadMarkdown(p), links |-> PayloadLinks(p)]
    ELSE [caught |-> TRUE, markdown |-> PayloadMarkdown(p), links |-> EmptyLinks]

\* the body of the scrape try block once scrapeRes.json() has resolved
ScrapeBody(ok, p) ==
    IF p.isNull
    THEN ScrapeCatch(EmptyMarkdown, EmptyLinks)   \* null.success is a TypeError
    ELSE IF ok /\ Truthy(p.success)
    THEN [caught |-> TRUE, markdown |-> PayloadMarkdown(p), links |-> PayloadLinks(p)]
    ELSE [caught |-> TRUE, markdown |-> PayloadMarkdown(p), links |-> EmptyLinks]

(***************************************************************************)
(* The extraction prompt                                                   *)
(***************************************************************************)
SliceLen == 8000

\* scrapedMarkdown.slice is not a function unless the value is a string or
\* an array
SliceThrows(markdown) == markdown.t \notin {"str", "arr"}

\* `${scrapedMarkdown.slice(0, 8000)}`
SlicedMarkdown(markdown) ==
    IF markdown.t = "str"
    THEN SubSeq(markdown.s, 1, IF Len(markdown.s) < SliceLen
                               THEN Len(markdown.s) ELSE SliceLen)
    ELSE markdown.s

\* scrapedLinks.length; -1 stands for undefined
LinkCount(links) ==
    CASE links.t = "arr" -> links.n2
      [] links.t = "str" -> Len(links.s)
      [] OTHER           -> -1

NoPrompt == [platform |-> "", url |-> "", markdown |-> "", links |-> -1]

BuildPrompt(platform, url, markdown, links) ==
    [platform |-> platform, url |-> url,
     markdown |-> SlicedMarkdown(markdown), links |-> LinkCount(links)]

(***************************************************************************)
(* Step 2: the extraction stage                                            *)
(*                                                                         *)
(* The completion payload (the value of aiRes.json()) is a record          *)
(* [isNull, content]: isNull for the JSON document null, content the value *)
(* of choices[0].message.content (absent when any link of that chain is    *)
(* missing).                                                               *)
(***************************************************************************)
\* the catch of JSON.parse: extractedData keeps its value
ParseFailedEmpty(base) == NonObject

ParseFailed(base) == base

\* the body of `if (aiRes.ok) { ... }` once aiRes.json() has resolved
ExtractFromPayload(base, aiData) ==
    IF aiData.isNull THEN base          \* null.choices is a TypeError, caught
    ELSE LET rawContent == Coalesce(aiData.content, JStr(""))
         IN  IF rawContent.t # "str"
             THEN base                  \* rawContent.replace is not a function
             ELSE LET jsonStr == StripFences(rawContent.s)
                  IN  IF IsValidJSON(jsonStr)
                      THEN Merge(base, JSONParse(jsonStr))
                      ELSE ParseFailed(base)

(***************************************************************************)
(* Step 3: the normalizer and the response                                 *)
(***************************************************************************)
\* usernameFromUrl || extractedData.username
ResolvedUsernameUrlFirst(ed, usernameFromUrl) ==
    IF usernameFromUrl # "" THEN JStr(usernameFromUrl) ELSE ed.top["username"]

\* extractedData.username || usernameFromUrl
ResolvedUsername(ed, usernameFromUrl) ==
    IF Truthy(ed.top["username"]) THEN ed.top["username"] ELSE JStr(usernameFromUrl)

\* username.match is not a function unless username is a string
BuildThrows(ed, usernameFromUrl) == ResolvedUsername(ed, usernameFromUrl).t # "str"

\* extractedData.username_flags?.<k>
ModelFlag(ed, k) ==
    IF ed.top["username_flags"].t = "obj" THEN ed.uf[k] ELSE JAbsent

\* a || v || false, for a boolean a
OrFalse(a, v) ==
    IF a THEN JBool(TRUE) ELSE IF Truthy(v) THEN v ELSE JBool(FALSE)

NumbersHeavyFive(username, flag) == OrFalse(DigitCount(username) >= 5, flag)

NumbersHeavy(username, flag) == OrFalse(DigitCount(username) >= 4, flag)

VeryShortStrict(username, flag) == OrFalse(Len(username) < 3, flag)

VeryShort(username, flag) == OrFalse(Len(username) <= 3, flag)

NoProfilePicSame(hasPic) == JBool(Truthy(hasPic))

NoProfilePic(hasPic) == JBool(~Truthy(hasPic))

\* Math.max(0, Math.round(x)) as JSON.stringify writes it
CountField(v) == Stringify(MathMax0(MathRound(v)))

FlagOut == {"numbers_heavy", "no_profile_pic", "random_characters", "very_short"}

ProfileKeys == CountKeys \cup FlagOut \cup {"username"}

Profile(ed, usernameFromUrl) ==
    LET username == ResolvedUsername(ed, usernameFromUrl)
    IN  [k \in ProfileKeys |->
            CASE k = "username"          -> username
              [] k \in CountKeys         -> CountField(ed.top[k])
              [] k = "numbers_heavy"     ->
                    NumbersHeavy(username.s, ModelFlag(ed, "numbers_heavy"))
              [] k = "no_profile_pic"    -> NoProfilePic(ed.top["has_profile_pic"])
              [] k = "random_characters" ->
                    OrFalse(FALSE, ModelFlag(ed, "random_characters"))
              [] k = "very_short"        ->
                    VeryShort(username.s, ModelFlag(ed, "very_short"))]

NoProfile == [k \in ProfileKeys |-> JAbsent]

\* no response sent yet
NoResponse ==
    [status |-> 0, success |-> FALSE, error |-> "", platform |-> JAbsent,
     confidence |-> JAbsent, notes |-> JAbsent, profile |-> NoProfile]

\* new Response(JSON.stringify({ error }), { status })
ErrorResponse(status, error) ==
    [status |-> status, success |-> FALSE, error |-> error, platform |-> JAbsent,
     confidence |-> JAbsent, notes |-> JAbsent, profile |-> NoProfile]

\* the body of the outer catch's response
InternalError == ErrorResponse(500, "Internal server error")

\* the outer catch: err is logged with console.error, the response does not
\* depend on it
OuterCatchLeaks(err) == ErrorResponse(500, err)

OuterCatch(err) == InternalError

\* the exceptions that reach the outer catch
ErrBodyNotJson == "SyntaxError: Unexpected token in JSON"

ErrBodyNull == "TypeError: Cannot destructure property 'url' of null"

ErrUrlIncludes == "TypeError: url.includes is not a function"

ErrFetch == "TypeError: fetch failed"

ErrSlice == "TypeError: scrapedMarkdown.slice is not a function"

ErrMatch == "TypeError: username.match is not a function"

\* new Response(JSON.stringify({ success: true, ... }))
SuccessResponse(ed, usernameFromUrl) ==
    [status |-> 200, success |-> TRUE, error |-> "",
     platform |-> Stringify(ed.top["platform"]),
     confidence |-> Stringify(ed.top["confidence"]),
     notes |-> Stringify(ed.top["notes"]),
     profile |-> Profile(ed, usernameFromUrl)]

\* Step 3 as a whole: the success response, or the outer catch when building
\* it throws
Respond(ed, usernameFromUrl) ==
    IF BuildThrows(ed, usernameFromUrl) THEN OuterCatch(ErrMatch)
    ELSE SuccessResponse(ed, usernameFromUrl)

(***************************************************************************)
(* Inputs: the requests and the replies of the collaborators               *)
(***************************************************************************)
Reqs == {"r1", "r2"}

FirstReq == "r1"

Methods == {"POST", "OPTIONS"}

\* the url property of the request body
UrlStrings ==
    { "https://instagram.com/john1234",
      "https://www.instagram.com/abc/?hl=twitter.com",
      "https://twitter.com/share?u=instagram.com/a",
      "https://x.com/john123",
      "https://www.netflix.com/title/81",
      "https://www.tiktok.com/@a1b2c3d4",
      "https://tiktok.com/@",
      "https://facebook.com/profile/jane.doe",
      "https://www.linkedin.com/in/janedoe/",
      "https://reddit.com/user/janedoe123",
      "https://www.tiktok.com/@jane/video/7",
      "https://example.org/u/@bob",
      "https://youtube.com/channel/",
      "https://example.org/a@b",
      "https://example.org",
      "https://example.org//",
      "https://example.org/?tab=posts",
      "instagram.com/john",
      "not a url" }

\* the value of req.json(): kind "nonjson" when it rejects, "null" for the
\* document null, "obj" for an object with the given url property
Bodies ==
    {[kind |-> "nonjson", url |-> JAbsent], [kind |-> "null", url |-> JAbsent]}
    \cup {[kind |-> "obj", url |-> u] :
            u \in {JAbsent, JStr(""), JInt(5)} \cup {JStr(s) : s \in UrlStrings}}

Payload(success, hasData, dMarkdown, dLinks, markdown, links) ==
    [isNull |-> FALSE, success |-> success, hasData |-> hasData,
     dMarkdown |-> dMarkdown, dLinks |-> dLinks,
     markdown |-> markdown, links |-> links]

NullPayload ==
    [isNull |-> TRUE, success |-> JAbsent, hasData |-> FALSE,
     dMarkdown |-> JAbsent, dLinks |-> JAbsent,
     markdown |-> JAbsent, links |-> JAbsent]

ScrapePayloads ==
    { Payload(JBool(TRUE), TRUE, JStr("# John\n1.2M followers"), JArr("a,b", 2),
              JAbsent, JAbsent),
      Payload(JBool(TRUE), TRUE, JAbsent, JAbsent, JAbsent, JAbsent),
      Payload(JBool(TRUE), FALSE, JAbsent, JAbsent, JStr("bio"), JArr("a", 1)),
      Payload(JBool(TRUE), TRUE, JInt(123), JAbsent, JAbsent, JAbsent),
      Payload(JBool(TRUE), TRUE, JArr("a,b", 2), JInt(5), JAbsent, JAbsent),
      Payload(JStr("yes"), TRUE, JStr("page"), JArr("", 0), JAbsent, JAbsent),
      Payload(JBool(FALSE), FALSE, JAbsent, JAbsent, JStr("partial page"),
              JArr("x", 1)),
      Payload(JBool(FALSE), TRUE, JStr("partial data"), JArr("x,y", 2),
              JAbsent, JAbsent),
      Payload(JBool(FALSE), FALSE, JAbsent, JAbsent, JAbsent, JAbsent),
      Payload(JBool(FALSE), FALSE, JAbsent, JAbsent, JInt(42), JAbsent),
      Payload(JAbsent, FALSE, JAbsent, JAbsent, JObj, JAbsent),
      NullPayload }

\* ways the completion service wraps a document
FencedJson(t) == "'''json\n" \o t \o "\n'''"

FencedBare(t) == "'''\n" \o t \o "\n'''"

FencedTight(t) == "'''json" \o t \o "'''"

Padded(t) == " \n" \o t \o "\n "

WithProse(t) == "Sure! " \o t

FencedOtherLabel(t) == "'''javascript\n" \o t \o "\n'''"

\* the documents that are also drawn wrapped
WrappedTexts ==
    { "{\"username\":\"john1234\"}",
      "{\"followers_count\":-5}",
      "{\"notes\":\"a'''b\"}",
      "{\"confidence\":\"medium\",\"notes\":\"partial\"}",
      "{not valid json}" }

\* the texts the completion service may answer with
AiTexts ==
    ValidTexts \cup InvalidTexts
    \cup {FencedJson(t) : t \in WrappedTexts}
    \cup {FencedBare(t) : t \in WrappedTexts}
    \cup {FencedTight(t) : t \in WrappedTexts}
    \cup {Padded(t) : t \in WrappedTexts}
    \cup {WithProse(t) : t \in WrappedTexts}
    \cup {FencedOtherLabel(t) : t \in WrappedTexts}

AiPayloads ==
    {[isNull |-> TRUE, content |-> JAbsent]}
    \cup {[isNull |-> FALSE, content |-> c] :
            c \in {JAbsent, JNull, JInt(7), JObj} \cup {JStr(t) : t \in AiTexts}}

NoPayload == [isNull |-> FALSE, content |-> JAbsent]

\* what a collaborator answered: kind is "none" before the answer, "throw"
\* when fetch rejected, "nonjson" when the body was not JSON, "json" otherwise
NoScrapeRes == [kind |-> "none", ok |-> FALSE, payload |-> NullPayload]

NoAiRes == [kind |-> "none", ok |-> FALSE, payload |-> NoPayload]

NoExtracted == NonObject

(***************************************************************************)
(* State: the environment of the function, and for each request the        *)
(* handler's position (pc), its locals, the replies it received, the       *)
(* number of calls it issued to each collaborator and its response.        *)
(***************************************************************************)
VARIABLES
    env,              \* which of FIRECRAWL_API_KEY / LOVABLE_API_KEY are set
    pc,               \* position of the handler of each request
    req,              \* method, Authorization header, token verdict, body
    profileUrl,
    platform,
    usernameFromUrl,
    scrapedMarkdown,
    scrapedLinks,
    extractionPrompt,
    extractedData,
    scrapeRes,        \* reply of the scrape service
    aiRes,            \* reply of the completion service
    scrapeCalls,
    aiCalls,
    caught,           \* the exception the outer catch received, "" if none
    resp

\* AuthProvider (the React context of the web client): its four pieces of
\* state, the isMounted ref, and the asynchronous work it has started
VARIABLES
    user,             \* useState<User | null>
    session,          \* useState<Session | null>
    userRole,         \* useState<AppRole | null>
    loading,          \* useState(true)
    isMounted,        \* isMounted.current
    subscribed,       \* the onAuthStateChange subscription is active
    initStep,         \* position of initializeAuth
    timers,           \* pending setTimeout callbacks, per user id
    fetches,          \* role queries in flight that a timer started, per user id
    signOuts,         \* signOut calls awaiting supabase.auth.signOut()
    eventsLeft        \* auth events the client may still deliver

authState == <<user, session, userRole, loading>>

authVars == <<user, session, userRole, loading, isMounted, subscribed,
              initStep, timers, fetches, signOuts, eventsLeft>>

locals == <<profileUrl, platform, usernameFromUrl, scrapedMarkdown,
            scrapedLinks, extractionPrompt, extractedData>>

vars_handler == <<env, pc, req, profileUrl, platform, usernameFromUrl,
                  scrapedMarkdown, scrapedLinks, extractionPrompt, extractedData,
                  scrapeRes, aiRes, scrapeCalls, aiCalls, caught, resp>>

vars == <<vars_handler, authVars>>

NoReq == [method |-> "", hasAuth |-> FALSE, tokenOk |-> FALSE,
          body |-> [kind |-> "none", url |-> JAbsent]]

\* the signed-in users and the sessions the auth client can report
Users == {"u1", "u2"}

NoUser == "null"

NoRole == "null"

Sessions == {[user |-> u] : u \in Users \cup {NoUser}}

NoSession == [user |-> NoUser]

MaxEvents == 2

MaxSignOuts == 1

\* AuthProvider after its first render, before the effect has run
AuthConstructed ==
    /\ user = NoUser
    /\ session = NoSession
    /\ userRole = NoRole
    /\ loading = TRUE
    /\ isMounted = TRUE
    /\ subscribed = FALSE
    /\ initStep = "idle"
    /\ timers = [u \in Users |-> 0]
    /\ fetches = [u \in Users |-> 0]
    /\ signOuts = 0
    /\ eventsLeft = MaxEvents

Init ==
    /\ AuthConstructed
    /\ env \in [firecrawlKey : BOOLEAN, lovableKey : BOOLEAN]
    /\ pc = [r \in Reqs |-> IF r = FirstReq THEN "start" ELSE "idle"]
    /\ req = [r \in Reqs |-> NoReq]
    /\ profileUrl = [r \in Reqs |-> JAbsent]
    /\ platform = [r \in Reqs |-> ""]
    /\ usernameFromUrl = [r \in Reqs |-> ""]
    /\ scrapedMarkdown = [r \in Reqs |-> EmptyMarkdown]
    /\ scrapedLinks = [r \in Reqs |-> EmptyLinks]
    /\ extractionPrompt = [r \in Reqs |-> NoPrompt]
    /\ extractedData = [r \in Reqs |-> NoExtracted]
    /\ scrapeRes = [r \in Reqs |-> NoScrapeRes]
    /\ aiRes = [r \in Reqs |-> NoAiRes]
    /\ scrapeCalls = [r \in Reqs |-> 0]
    /\ aiCalls = [r \in Reqs |-> 0]
    /\ caught = [r \in Reqs |-> ""]
    /\ resp = [r \in Reqs |-> NoResponse]

\* the handler returns response x
Return(r, x) ==
    /\ pc' = [pc EXCEPT ![r] = "done"]
    /\ resp' = [resp EXCEPT ![r] = x]

\* an exception err reaches the outer catch (lines 237-242)
Throw(r, err) ==
    /\ caught' = [caught EXCEPT ![r] = err]
    /\ Return(r, OuterCatch(err))

\* if (!profileUrl)
UrlMissingNullish(url) == Nullish(url)

UrlMissing(url) == ~Truthy(url)

(***************************************************************************)
(* The request arrives: the OPTIONS shortcut, the Authorization header     *)
(* check, then the call of supabase.auth.getUser (lines 36-54).            *)
(***************************************************************************)
Start(r) ==
    /\ pc[r] = "start"
    /\ \E m \in Methods, a \in BOOLEAN :
          /\ req' = [req EXCEPT ![r] = [@ EXCEPT !.method = m, !.hasAuth = a]]
          /\ IF m = "OPTIONS"
             THEN Return(r, [NoResponse EXCEPT !.status = 200])
             ELSE IF ~a
             THEN Return(r, ErrorResponse(401, "Unauthorized"))
             ELSE /\ pc' = [pc EXCEPT ![r] = "getUser"]
                  /\ UNCHANGED resp
    /\ UNCHANGED <<authVars, env, locals, scrapeRes, aiRes, scrapeCalls, aiCalls, caught>>

(***************************************************************************)
(* getUser resolves: the token check, then the call of req.json()          *)
(* (lines 54-61).                                                          *)
(***************************************************************************)
GetUserReturn(r) ==
    /\ pc[r] = "getUser"
    /\ \E ok \in BOOLEAN :
          /\ req' = [req EXCEPT ![r] = [@ EXCEPT !.tokenOk = ok]]
          /\ IF ~ok
             THEN Return(r, ErrorResponse(401, "Invalid token"))
             ELSE /\ pc' = [pc EXCEPT ![r] = "readBody"]
                  /\ UNCHANGED resp
    /\ UNCHANGED <<authVars, env, locals, scrapeRes, aiRes, scrapeCalls, aiCalls, caught>>

(***************************************************************************)
(* req.json() settles: the url and key checks, the classifier, and the     *)
(* scrape request is sent (lines 61-104).                                  *)
(***************************************************************************)
\* a handler that checks the two keys before the url
ReadBodyReturnFromKeysFirst(r, bodies) ==
    /\ pc[r] = "readBody"
    /\ \E body \in bodies :
          /\ req' = [req EXCEPT ![r] = [@ EXCEPT !.body = body]]
          /\ IF body.kind # "obj"
             THEN \* req.json() rejected, or destructuring null threw
                  /\ Throw(r, IF body.kind = "null" THEN ErrBodyNull
                              ELSE ErrBodyNotJson)
                  /\ UNCHANGED <<locals, scrapeCalls>>
             ELSE IF ~env.firecrawlKey   \* keys before url
             THEN /\ Return(r, ErrorResponse(500, "Firecrawl not configured"))
                  /\ profileUrl' = [profileUrl EXCEPT ![r] = body.url]
                  /\ UNCHANGED <<platform, usernameFromUrl, scrapedMarkdown,
                                 scrapedLinks, extractionPrompt, extractedData,
                                 scrapeCalls, caught>>
             ELSE IF ~env.lovableKey
             THEN /\ Return(r, ErrorResponse(500, "AI gateway not configured"))
                  /\ profileUrl' = [profileUrl EXCEPT ![r] = body.url]
                  /\ UNCHANGED <<platform, usernameFromUrl, scrapedMarkdown,
                                 scrapedLinks, extractionPrompt, extractedData,
                                 scrapeCalls, caught>>
             ELSE IF UrlMissing(body.url)
             THEN /\ Return(r, ErrorResponse(400, "Profile URL is required"))
                  /\ UNCHANGED <<locals, scrapeCalls, caught>>
             ELSE IF body.url.t # "str"
             THEN \* url.includes is not a function
                  /\ Throw(r, ErrUrlIncludes)
                  /\ profileUrl' = [profileUrl EXCEPT ![r] = body.url]
                  /\ UNCHANGED <<platform, usernameFromUrl, scrapedMarkdown,
                                 scrapedLinks, extractionPrompt, extractedData,
                                 scrapeCalls>>
             ELSE /\ profileUrl' = [profileUrl EXCEPT ![r] = body.url]
                  /\ platform' = [platform EXCEPT ![r] = detectPlatform(body.url.s)]
                  /\ usernameFromUrl' =
                        [usernameFromUrl EXCEPT ![r] = extractUsername(body.url.s)]
                  /\ scrapedMarkdown' = [scrapedMarkdown EXCEPT ![r] = EmptyMarkdown]
                  /\ scrapedLinks' = [scrapedLinks EXCEPT ![r] = EmptyLinks]
                  /\ scrapeCalls' = [scrapeCalls EXCEPT ![r] = @ + 1]
                  /\ pc' = [pc EXCEPT ![r] = "scrapeFetch"]
                  /\ UNCHANGED <<extractionPrompt, extractedData, caught, resp>>
    /\ UNCHANGED <<authVars, env, scrapeRes, aiRes, aiCalls>>

ReadBodyReturnFrom(r, bodies) ==
    /\ pc[r] = "readBody"
    /\ \E body \in bodies :
          /\ req' = [req EXCEPT ![r] = [@ EXCEPT !.body = body]]
          /\ IF body.kind # "obj"
             THEN \* req.json() rejected, or destructuring null threw
                  /\ Throw(r, IF body.kind = "null" THEN ErrBodyNull
                              ELSE ErrBodyNotJson)
                  /\ UNCHANGED <<locals, scrapeCalls>>
             ELSE IF UrlMissing(body.url)
             THEN /\ Return(r, ErrorResponse(400, "Profile URL is required"))
                  /\ UNCHANGED <<locals, scrapeCalls, caught>>
             ELSE IF ~env.firecrawlKey
             THEN /\ Return(r, ErrorResponse(500, "Firecrawl not configured"))
                  /\ profileUrl' = [profileUrl EXCEPT ![r] = body.url]
                  /\ UNCHANGED <<platform, usernameFromUrl, scrapedMarkdown,
                                 scrapedLinks, extractionPrompt, extractedData,
                                 scrapeCalls, caught>>
             ELSE IF ~env.lovableKey
             THEN /\ Return(r, ErrorResponse(500, "AI gateway not configured"))
                  /\ profileUrl' = [profileUrl EXCEPT ![r] = body.url]
                  /\ UNCHANGED <<platform, usernameFromUrl, scrapedMarkdown,
                                 scrapedLinks, extractionPrompt, extractedData,
                                 scrapeCalls, caught>>
             ELSE IF body.url.t # "str"
             THEN \* url.includes is not a function
                  /\ Throw(r, ErrUrlIncludes)
                  /\ profileUrl' = [profileUrl EXCEPT ![r] = body.url]
                  /\ UNCHANGED <<platform, usernameFromUrl, scrapedMarkdown,
                                 scrapedLinks, extractionPrompt, extractedData,
                                 scrapeCalls>>
             ELSE /\ profileUrl' = [profileUrl EXCEPT ![r] = body.url]
                  /\ platform' = [platform EXCEPT ![r] = detectPlatform(body.url.s)]
                  /\ usernameFromUrl' =
                        [usernameFromUrl EXCEPT ![r] = extractUsername(body.url.s)]
                  /\ scrapedMarkdown' = [scrapedMarkdown EXCEPT ![r] = EmptyMarkdown]
                  /\ scrapedLinks' = [scrapedLinks EXCEPT ![r] = EmptyLinks]
                  /\ scrapeCalls' = [scrapeCalls EXCEPT ![r] = @ + 1]
                  /\ pc' = [pc EXCEPT ![r] = "scrapeFetch"]
                  /\ UNCHANGED <<extractionPrompt, extractedData, caught, resp>>
    /\ UNCHANGED <<authVars, env, scrapeRes, aiRes, aiCalls>>

ReadBodyReturn(r) == ReadBodyReturnFrom(r, Bodies)

(***************************************************************************)
(* After the scrape try/catch (lines 118-183): when the catch rethrows     *)
(* nothing, the prompt is built - scrapedMarkdown.slice may throw, which   *)
(* the outer catch answers - the default record is built and the           *)
(* completion request is sent.                                             *)
(***************************************************************************)
AfterScrape(r, out) ==
    /\ scrapedMarkdown' = [scrapedMarkdown EXCEPT ![r] = out.markdown]
    /\ scrapedLinks' = [scrapedLinks EXCEPT ![r] = out.links]
    /\ IF ~out.caught \/ SliceThrows(out.markdown)
       THEN /\ Throw(r, IF ~out.caught THEN ErrFetch ELSE ErrSlice)
            /\ UNCHANGED <<extractionPrompt, extractedData, aiCalls>>
       ELSE /\ extractionPrompt' =
                  [extractionPrompt EXCEPT ![r] =
                      BuildPrompt(platform[r], profileUrl[r].s,
                                  out.markdown, out.links)]
            /\ extractedData' =
                  [extractedData EXCEPT ![r] =
                      DefaultExtracted(usernameFromUrl[r], platform[r])]
            /\ aiCalls' = [aiCalls EXCEPT ![r] = @ + 1]
            /\ pc' = [pc EXCEPT ![r] = "aiFetch"]
            /\ UNCHANGED <<caught, resp>>

\* a handler that fetches the scrape service a second time after a rejection
ScrapeFetchThrowsRetry(r) ==
    /\ pc[r] = "scrapeFetch"
    /\ scrapeRes' = [scrapeRes EXCEPT ![r] = [NoScrapeRes EXCEPT !.kind = "throw"]]
    /\ IF scrapeCalls[r] < 2
       THEN /\ scrapeCalls' = [scrapeCalls EXCEPT ![r] = @ + 1]
            /\ UNCHANGED <<pc, scrapedMarkdown, scrapedLinks, extractionPrompt,
                           extractedData, aiCalls, caught, resp>>
       ELSE /\ AfterScrape(r, ScrapeCatch(scrapedMarkdown[r], scrapedLinks[r]))
            /\ UNCHANGED scrapeCalls
    /\ UNCHANGED <<authVars, env, req, profileUrl, platform, usernameFromUrl, aiRes>>

\* fetch of the scrape service rejects (network error, timeout): line 118
ScrapeFetchThrows(r) ==
    /\ pc[r] = "scrapeFetch"
    /\ scrapeRes' = [scrapeRes EXCEPT ![r] = [NoScrapeRes EXCEPT !.kind = "throw"]]
    /\ AfterScrape(r, ScrapeCatch(scrapedMarkdown[r], scrapedLinks[r]))
    /\ UNCHANGED <<authVars, env, req, profileUrl, platform, usernameFromUrl, aiRes,
                   scrapeCalls>>

\* fetch of the scrape service resolves with a status: scrapeRes.json() is
\* called (line 106)
ScrapeFetchReturn(r) ==
    /\ pc[r] = "scrapeFetch"
    /\ \E ok \in BOOLEAN :
          scrapeRes' = [scrapeRes EXCEPT ![r] =
                           [NoScrapeRes EXCEPT !.kind = "status", !.ok = ok]]
    /\ pc' = [pc EXCEPT ![r] = "scrapeJson"]
    /\ UNCHANGED <<authVars, env, req, locals, aiRes, scrapeCalls, aiCalls, caught, resp>>

\* scrapeRes.json() rejects (the body is not JSON): line 118
ScrapeJsonThrows(r) ==
    /\ pc[r] = "scrapeJson"
    /\ scrapeRes' = [scrapeRes EXCEPT ![r] = [@ EXCEPT !.kind = "nonjson"]]
    /\ AfterScrape(r, ScrapeCatch(scrapedMarkdown[r], scrapedLinks[r]))
    /\ UNCHANGED <<authVars, env, req, profileUrl, platform, usernameFromUrl, aiRes,
                   scrapeCalls>>

\* scrapeRes.json() resolves with a payload: lines 107-117
ScrapeJsonReturnFrom(r, payloads) ==
    /\ pc[r] = "scrapeJson"
    /\ \E p \in payloads :
          /\ scrapeRes' = [scrapeRes EXCEPT ![r] =
                              [@ EXCEPT !.kind = "json", !.payload = p]]
          /\ AfterScrape(r, ScrapeBody(scrapeRes[r].ok, p))
    /\ UNCHANGED <<authVars, env, req, profileUrl, platform, usernameFromUrl, aiRes,
                   scrapeCalls>>

ScrapeJsonReturn(r) == ScrapeJsonReturnFrom(r, ScrapePayloads)

(***************************************************************************)
(* After the extraction try/catch (lines 209-242): the response is built   *)
(* from the extracted record.                                              *)
(***************************************************************************)
\* a handler that lowers confidence when the scrape gave no content
FinishScrapeAware(r, ed) ==
    LET seen == IF scrapedMarkdown[r] = EmptyMarkdown
                THEN [ed EXCEPT !.top["confidence"] = JStr("low")]
                ELSE ed
    IN  /\ extractedData' = [extractedData EXCEPT ![r] = seen]
        /\ Return(r, Respond(seen, usernameFromUrl[r]))
        /\ caught' = [caught EXCEPT ![r] =
                          IF BuildThrows(seen, usernameFromUrl[r])
                          THEN ErrMatch ELSE @]

FinishShared(r, ed) ==
    LET q == CHOOSE q \in Reqs : q # r
        u == IF scrapeCalls[q] > 0 THEN usernameFromUrl[q] ELSE usernameFromUrl[r]
    IN  /\ extractedData' = [extractedData EXCEPT ![r] = ed]
        /\ Return(r, Respond(ed, u))
        /\ caught' = [caught EXCEPT ![r] =
                          IF BuildThrows(ed, u) THEN ErrMatch ELSE @]

Finish(r, ed) ==
    /\ extractedData' = [extractedData EXCEPT ![r] = ed]
    /\ Return(r, Respond(ed, usernameFromUrl[r]))
    /\ caught' = [caught EXCEPT ![r] =
                      IF BuildThrows(ed, usernameFromUrl[r]) THEN ErrMatch ELSE @]

\* fetch of the completion service rejects: line 205
AiFetchThrows(r) ==
    /\ pc[r] = "aiFetch"
    /\ aiRes' = [aiRes EXCEPT ![r] = [NoAiRes EXCEPT !.kind = "throw"]]
    /\ Finish(r, extractedData[r])
    /\ UNCHANGED <<authVars, env, req, profileUrl, platform, usernameFromUrl,
                   scrapedMarkdown, scrapedLinks, extractionPrompt, scrapeRes,
                   scrapeCalls, aiCalls>>

\* fetch of the completion service resolves with a status: a non-OK status
\* is logged (line 203), an OK one calls aiRes.json() (line 186)
AiFetchReturn(r) ==
    /\ pc[r] = "aiFetch"
    /\ \E ok \in BOOLEAN :
          /\ aiRes' = [aiRes EXCEPT ![r] =
                          [NoAiRes EXCEPT !.kind = "status", !.ok = ok]]
          /\ IF ok
             THEN /\ pc' = [pc EXCEPT ![r] = "aiJson"]
                  /\ UNCHANGED <<extractedData, caught, resp>>
             ELSE Finish(r, extractedData[r])
    /\ UNCHANGED <<authVars, env, req, profileUrl, platform, usernameFromUrl,
                   scrapedMarkdown, scrapedLinks, extractionPrompt, scrapeRes,
                   scrapeCalls, aiCalls>>

\* aiRes.json() rejects (the body is not JSON): line 205
AiJsonThrows(r) ==
    /\ pc[r] = "aiJson"
    /\ aiRes' = [aiRes EXCEPT ![r] = [@ EXCEPT !.kind = "nonjson"]]
    /\ Finish(r, extractedData[r])
    /\ UNCHANGED <<authVars, env, req, profileUrl, platform, usernameFromUrl,
                   scrapedMarkdown, scrapedLinks, extractionPrompt, scrapeRes,
                   scrapeCalls, aiCalls>>

\* aiRes.json() resolves with a payload: lines 187-201
AiJsonReturnFrom(r, payloads) ==
    /\ pc[r] = "aiJson"
    /\ \E p \in payloads :
          /\ aiRes' = [aiRes EXCEPT ![r] = [@ EXCEPT !.kind = "json", !.payload = p]]
          /\ Finish(r, ExtractFromPayload(extractedData[r], p))
    /\ UNCHANGED <<authVars, env, req, profileUrl, platform, usernameFromUrl,
                   scrapedMarkdown, scrapedLinks, extractionPrompt, scrapeRes,
                   scrapeCalls, aiCalls>>

AiJsonReturn(r) == AiJsonReturnFrom(r, AiPayloads)

Next ==
    \E r \in Reqs :
        \/ Start(r)
        \/ GetUserReturn(r)
        \/ ReadBodyReturn(r)
        \/ ScrapeFetchThrows(r)
        \/ ScrapeFetchReturn(r)
        \/ ScrapeJsonThrows(r)
        \/ ScrapeJsonReturn(r)
        \/ AiFetchThrows(r)
        \/ AiFetchReturn(r)
        \/ AiJsonThrows(r)
        \/ AiJsonReturn(r)

Spec == Init /\ [][Next]_vars

(***************************************************************************)
(* Two invocations in flight at once.  The runtime starts one handler call *)
(* per request and interleaves them at their await points; each call has   *)
(* its own locals.  The inputs are a selection of those above.             *)
(***************************************************************************)
PairUrls == {"https://instagram.com/john1234", "https://tiktok.com/@"}

PairBodies ==
    {[kind |-> "nonjson", url |-> JAbsent]}
    \cup {[kind |-> "obj", url |-> u] :
            u \in {JAbsent, JInt(5)} \cup {JStr(t) : t \in PairUrls}}

PairScrapePayloads ==
    { Payload(JBool(TRUE), TRUE, JStr("# John\n1.2M followers"), JArr("a,b", 2),
              JAbsent, JAbsent),
      Payload(JBool(TRUE), TRUE, JInt(123), JAbsent, JAbsent, JAbsent) }

PairAiTexts ==
    { "{\"username\":12345}",
      "{\"confidence\":\"medium\",\"notes\":\"partial\"}",
      "{\"username\":\"abc\"}",
      FencedJson("{\"followers_count\":-5}"),
      "{not valid json}" }

PairAiPayloads == {[isNull |-> FALSE, content |-> JStr(t)] : t \in PairAiTexts}

InitPair ==
    /\ AuthConstructed
    /\ env \in [firecrawlKey : BOOLEAN, lovableKey : BOOLEAN]
    /\ pc = [r \in Reqs |-> "start"]
    /\ req = [r \in Reqs |-> NoReq]
    /\ profileUrl = [r \in Reqs |-> JAbsent]
    /\ platform = [r \in Reqs |-> ""]
    /\ usernameFromUrl = [r \in Reqs |-> ""]
    /\ scrapedMarkdown = [r \in Reqs |-> EmptyMarkdown]
    /\ scrapedLinks = [r \in Reqs |-> EmptyLinks]
    /\ extractionPrompt = [r \in Reqs |-> NoPrompt]
    /\ extractedData = [r \in Reqs |-> NoExtracted]
    /\ scrapeRes = [r \in Reqs |-> NoScrapeRes]
    /\ aiRes = [r \in Reqs |-> NoAiRes]
    /\ scrapeCalls = [r \in Reqs |-> 0]
    /\ aiCalls = [r \in Reqs |-> 0]
    /\ caught = [r \in Reqs |-> ""]
    /\ resp = [r \in Reqs |-> NoResponse]

NextPair ==
    \E r \in Reqs :
        \/ Start(r)
        \/ GetUserReturn(r)
        \/ ReadBodyReturnFrom(r, PairBodies)
        \/ ScrapeFetchThrows(r)
        \/ ScrapeFetchReturn(r)
        \/ ScrapeJsonThrows(r)
        \/ ScrapeJsonReturnFrom(r, PairScrapePayloads)
        \/ AiFetchThrows(r)
        \/ AiFetchReturn(r)
        \/ AiJsonThrows(r)
        \/ AiJsonReturnFrom(r, PairAiPayloads)

SpecPair == InitPair /\ [][NextPair]_vars

(***************************************************************************)
(* The handler as one sequential function of its inputs: the request, the  *)
(* configuration and what the two services answered.                       *)
(***************************************************************************)
ScrapeOutcome(sr) ==
    IF sr.kind = "json" THEN ScrapeBody(sr.ok, sr.payload)
    ELSE ScrapeCatch(EmptyMarkdown, EmptyLinks)

RunAlone(e, rq, sr, ar) ==
    IF rq.method = "OPTIONS" THEN [NoResponse EXCEPT !.status = 200]
    ELSE IF ~rq.hasAuth THEN ErrorResponse(401, "Unauthorized")
    ELSE IF ~rq.tokenOk THEN ErrorResponse(401, "Invalid token")
    ELSE IF rq.body.kind # "obj" THEN OuterCatch(ErrBodyNotJson)
    ELSE IF UrlMissing(rq.body.url)
    THEN ErrorResponse(400, "Profile URL is required")
    ELSE IF ~e.firecrawlKey THEN ErrorResponse(500, "Firecrawl not configured")
    ELSE IF ~e.lovableKey THEN ErrorResponse(500, "AI gateway not configured")
    ELSE IF rq.body.url.t # "str" THEN OuterCatch(ErrUrlIncludes)
    ELSE LET url  == rq.body.url.s
             u    == extractUsername(url)
             out  == ScrapeOutcome(sr)
             base == DefaultExtracted(u, detectPlatform(url))
             ed   == IF ar.kind = "json"
                     THEN ExtractFromPayload(base, ar.payload)
                     ELSE base
         IN  IF ~out.caught \/ SliceThrows(out.markdown)
             THEN OuterCatch(ErrSlice)
             ELSE Respond(ed, u)

(***************************************************************************)
(* Properties                                                              *)
(***************************************************************************)
Done(r) == pc[r] = "done"

\* the preconditions passed and the pipeline ran: the scrape call was issued
PipelineRan(r) == scrapeCalls[r] > 0

\* the scrape call failed: fetch rejected, the body was not JSON, or the
\* service answered without both an OK status and a truthy success flag
ScrapeFailed(r) ==
    \/ scrapeRes[r].kind \in {"throw", "nonjson"}
    \/ /\ scrapeRes[r].kind = "json"
       /\ ~(scrapeRes[r].ok /\ ~scrapeRes[r].payload.isNull
              /\ Truthy(scrapeRes[r].payload.success))

\* the completion call failed: fetch rejected, non-OK status, a body that is
\* not JSON, a payload without a text, or a text that is not valid JSON once
\* the fences are stripped
CompletionFailed(r) ==
    \/ aiRes[r].kind \in {"throw", "nonjson"}
    \/ aiRes[r].kind = "status" /\ ~aiRes[r].ok /\ Done(r)
    \/ /\ aiRes[r].kind = "json"
       /\ \/ aiRes[r].payload.isNull
          \/ aiRes[r].payload.content.t # "str"
          \/ ~IsValidJSON(StripFences(aiRes[r].payload.content.s))

\* C1: once the preconditions have passed, every outcome of the scrape call
\* and of the completion call ends in a success:true response, never in an
\* error response.
C1_StageOutcomesNeverError ==
    \A r \in Reqs : (Done(r) /\ PipelineRan(r)) => resp[r].success

\* C2: when the scrape call fails and the completion call fails too, the
\* response is the default profile: success, the URL-derived username, the
\* classifier's platform, five zero counts, confidence low, the fixed note,
\* no_profile_pic and random_characters false, and numbers_heavy / very_short
\* as the URL-derived username alone decides.
C2_BothFailGivesDefault ==
    \A r \in Reqs :
        (Done(r) /\ ScrapeFailed(r) /\ CompletionFailed(r)) =>
            LET u == extractUsername(profileUrl[r].s)
            IN  /\ resp[r].success /\ resp[r].status = 200
                /\ resp[r].platform = JStr(detectPlatform(profileUrl[r].s))
                /\ resp[r].confidence = JStr("low")
                /\ resp[r].notes = JStr("Could not extract data from the page")
                /\ resp[r].profile["username"] = JStr(u)
                /\ \A k \in CountKeys : resp[r].profile[k] = JInt(0)
                /\ resp[r].profile["no_profile_pic"] = JBool(FALSE)
                /\ resp[r].profile["random_characters"] = JBool(FALSE)
                /\ resp[r].profile["numbers_heavy"] = JBool(DigitCount(u) >= 4)
                /\ resp[r].profile["very_short"] = JBool(Len(u) <= 3)

C2_Witness ==
    \E r \in Reqs :
        /\ Done(r) /\ scrapeRes[r].kind = "throw" /\ aiRes[r].kind = "throw"
        /\ resp[r].success
        /\ resp[r].profile["username"] = JStr("john1234")
        /\ resp[r].profile["numbers_heavy"] = JBool(TRUE)

\* C3: when the scrape request throws or its body is not JSON, the scraped
\* markdown stays empty, the link list stays empty and the completion call
\* is still issued.
C3_ScrapeTransportFailureContinues ==
    \A r \in Reqs :
        scrapeRes[r].kind \in {"throw", "nonjson"} =>
            /\ scrapedMarkdown[r] = JStr("")
            /\ scrapedLinks[r] = JArr("", 0)
            /\ extractionPrompt[r].markdown = ""
            /\ aiCalls[r] = 1
            /\ pc[r] \in {"aiFetch", "aiJson", "done"}

C3_Witness ==
    \E r \in Reqs :
        /\ scrapeRes[r].kind = "nonjson" /\ aiCalls[r] = 1
        /\ aiRes[r].kind = "json" /\ Done(r)
        /\ resp[r].confidence = JStr("medium")

\* C4: when the completion call throws, answers with a non-OK status or a
\* body that is not JSON, or its text is not valid JSON after fence
\* stripping, the extracted record is the default instance, field for
\* field, and the handler still answers with a success response.
C4_ExtractionFailureKeepsDefault ==
    \A r \in Reqs :
        (Done(r) /\ CompletionFailed(r)) =>
            /\ extractedData[r] = DefaultExtracted(usernameFromUrl[r], platform[r])
            /\ resp[r].success

C4_Witness ==
    \E r \in Reqs :
        /\ Done(r) /\ aiRes[r].kind = "json"
        /\ aiRes[r].payload.content = JStr(FencedJson("{not valid json}"))
        /\ extractedData[r] = DefaultExtracted(usernameFromUrl[r], platform[r])

\* C5: in every success response each of the five counts is an integer
\* greater than or equal to 0.
C5_CountsAreNonNegativeIntegers ==
    \A r \in Reqs :
        resp[r].success =>
            \A k \in CountKeys :
                /\ resp[r].profile[k].t = "num"
                /\ resp[r].profile[k].n2 % 2 = 0
                /\ resp[r].profile[k].n2 >= 0

\* C6: for an integer count x in the extracted record, the response field
\* is max(0, x).
C6_IntegerCountsClampedAtZero ==
    \A r \in Reqs :
        resp[r].success =>
            \A k \in CountKeys :
                LET x == extractedData[r].top[k]
                IN  (x.t = "num" /\ x.n2 % 2 = 0) =>
                        resp[r].profile[k] = IF x.n2 < 0 THEN JInt(0) ELSE x

C6_Witness ==
    \E r \in Reqs :
        /\ resp[r].success
        /\ extractedData[r].top["followers_count"] = JInt(-5)
        /\ resp[r].profile["followers_count"] = JInt(0)

\* C7: numbers_heavy is true exactly when the resolved username has 4 or
\* more digits or the model's username_flags.numbers_heavy is true.
C7_NumbersHeavyRule ==
    \A r \in Reqs :
        resp[r].success =>
            ( resp[r].profile["numbers_heavy"] = JBool(TRUE)
              <=> \/ DigitCount(resp[r].profile["username"].s) >= 4
                  \/ ModelFlag(extractedData[r], "numbers_heavy") = JBool(TRUE) )

C7_Witness ==
    \E r \in Reqs :
        /\ resp[r].success
        /\ DigitCount(resp[r].profile["username"].s) = 4
        /\ ModelFlag(extractedData[r], "numbers_heavy") = JBool(FALSE)
        /\ resp[r].profile["numbers_heavy"] = JBool(TRUE)

\* C8: very_short is true exactly when the resolved username has length 3
\* or less or the model's username_flags.very_short is true.
C8_VeryShortRule ==
    \A r \in Reqs :
        resp[r].success =>
            ( resp[r].profile["very_short"] = JBool(TRUE)
              <=> \/ Len(resp[r].profile["username"].s) <= 3
                  \/ ModelFlag(extractedData[r], "very_short") = JBool(TRUE) )

C8_Witness ==
    \E r \in Reqs :
        /\ resp[r].success
        /\ Len(resp[r].profile["username"].s) = 3
        /\ ModelFlag(extractedData[r], "very_short") = JBool(FALSE)
        /\ resp[r].profile["very_short"] = JBool(TRUE)

\* C9: no_profile_pic is the negation of the extracted record's
\* has_profile_pic, and false whenever the record is the default instance.
C9_NoProfilePicIsNegation ==
    \A r \in Reqs :
        resp[r].success =>
            /\ resp[r].profile["no_profile_pic"].t = "bool"
            /\ resp[r].profile["no_profile_pic"].b
                  = ~Truthy(extractedData[r].top["has_profile_pic"])
            /\ extractedData[r] = DefaultExtracted(usernameFromUrl[r], platform[r])
                  => resp[r].profile["no_profile_pic"] = JBool(FALSE)

C9_Witness ==
    \E r \in Reqs :
        /\ resp[r].success
        /\ extractedData[r].top["has_profile_pic"] = JBool(FALSE)
        /\ resp[r].profile["no_profile_pic"] = JBool(TRUE)

\* the classifier's table: the labels in priority order, each with the
\* domain substrings that select it
PlatformTable ==
    << [label |-> "Instagram", domains |-> {"instagram.com"}],
       [label |-> "Twitter/X", domains |-> {"twitter.com", "x.com"}],
       [label |-> "TikTok",    domains |-> {"tiktok.com"}],
       [label |-> "Facebook",  domains |-> {"facebook.com"}],
       [label |-> "LinkedIn",  domains |-> {"linkedin.com"}],
       [label |-> "Reddit",    domains |-> {"reddit.com"}],
       [label |-> "YouTube",   domains |-> {"youtube.com"}] >>

\* the entries of the table with a domain that occurs in url
Matching(url) ==
    {i \in DOMAIN PlatformTable :
        \E d \in PlatformTable[i].domains : Includes(url, d)}

\* C10: detectPlatform returns the label of the first matching entry of the
\* table, Unknown when none matches; a URL containing instagram.com is
\* Instagram whatever else it contains.
C10_FirstMatchWins ==
    \A r \in Reqs :
        (PipelineRan(r) /\ profileUrl[r].t = "str") =>
            LET url == profileUrl[r].s
                m   == Matching(url)
            IN  /\ platform[r] = IF m = {} THEN "Unknown"
                                 ELSE PlatformTable[CHOOSE i \in m :
                                                      \A j \in m : i <= j].label
                /\ Includes(url, "instagram.com") => platform[r] = "Instagram"

C10_Witness ==
    \E r \in Reqs :
        /\ PipelineRan(r)
        /\ Includes(profileUrl[r].s, "twitter.com")
        /\ Includes(profileUrl[r].s, "instagram.com")
        /\ platform[r] = "Instagram"


\* C11: extractUsername never raises on a string (a request whose url is a
\* non-empty string and whose keys are configured always gets past the
\* classifier to the scrape call), and it returns the literal 'unknown' when
\* the URL does not parse (no http(s) scheme followed by a host) or when its
\* path has no non-empty segment (the path is made of slashes only).
HasHttpScheme(url) == StartsWith(url, "http://") \/ StartsWith(url, "https://")

OnlySlashes(p) == \A i \in 1..Len(p) : CharAt(p, i) = "/"

NoSegment(url) == ~HasHttpScheme(url) \/ OnlySlashes(Pathname(url))

ClassifierReached(r) ==
    /\ req[r].body.kind = "obj"
    /\ req[r].body.url.t = "str"
    /\ req[r].body.url.s # ""
    /\ env.firecrawlKey
    /\ env.lovableKey

C11_ExtractUsernameTotal ==
    \A r \in Reqs :
        /\ ClassifierReached(r) =>
              /\ PipelineRan(r)
              /\ caught[r] # ErrUrlIncludes
        /\ PipelineRan(r) /\ NoSegment(profileUrl[r].s) =>
              usernameFromUrl[r] = "unknown"

C11_Witness ==
    \E r \in Reqs :
        /\ PipelineRan(r)
        /\ ~HasHttpScheme(profileUrl[r].s)
        /\ usernameFromUrl[r] = "unknown"
        /\ Done(r)
        /\ resp[r].success

C11_WitnessEmptyPath ==
    \E r \in Reqs :
        /\ PipelineRan(r)
        /\ HasHttpScheme(profileUrl[r].s)
        /\ OnlySlashes(Pathname(profileUrl[r].s))
        /\ usernameFromUrl[r] = "unknown"

\* C12: when a precondition fails (no Authorization header, invalid token,
\* url missing from the parsed body, scraping key not configured, completion
\* key not configured) the handler answers an {error} body with the status of
\* the first check that failed, and neither the scrape call nor the
\* completion call is issued.
Authorized(r) == req[r].method = "POST" /\ req[r].hasAuth /\ req[r].tokenOk

BodyParsed(r) == Authorized(r) /\ req[r].body.kind = "obj"

UrlGiven(r) ==
    /\ BodyParsed(r)
    /\ req[r].body.url.t \notin {"absent", "null"}
    /\ req[r].body.url # JStr("")

NoCalls(r) == scrapeCalls[r] = 0 /\ aiCalls[r] = 0

C12_PreconditionFailures ==
    \A r \in Reqs : Done(r) /\ req[r].method = "POST" =>
        /\ ~req[r].hasAuth =>
              resp[r] = ErrorResponse(401, "Unauthorized") /\ NoCalls(r)
        /\ req[r].hasAuth /\ ~req[r].tokenOk =>
              resp[r] = ErrorResponse(401, "Invalid token") /\ NoCalls(r)
        /\ BodyParsed(r) /\ ~UrlGiven(r) =>
              resp[r] = ErrorResponse(400, "Profile URL is required") /\ NoCalls(r)
        /\ UrlGiven(r) /\ ~env.firecrawlKey =>
              resp[r] = ErrorResponse(500, "Firecrawl not configured") /\ NoCalls(r)
        /\ UrlGiven(r) /\ env.firecrawlKey /\ ~env.lovableKey =>
              resp[r] = ErrorResponse(500, "AI gateway not configured") /\ NoCalls(r)
        /\ (~Authorized(r) \/ (BodyParsed(r) /\ ~UrlGiven(r))
                \/ ~env.firecrawlKey \/ ~env.lovableKey) =>
              /\ resp[r].status \in {400, 401, 500}
              /\ resp[r].error # ""
              /\ ~resp[r].success
              /\ NoCalls(r)

C12_Witness ==
    \E r \in Reqs :
        /\ Done(r)
        /\ BodyParsed(r)
        /\ req[r].body.url = JStr("")
        /\ env.firecrawlKey /\ env.lovableKey
        /\ resp[r] = ErrorResponse(400, "Profile URL is required")
        /\ NoCalls(r)

\* C13: within one request the scrape service is called at most once and the
\* completion service at most once, and the completion call is issued only
\* after the scrape call has finished (its fetch rejected, its body failed to
\* parse, or its body was read); the scrape stage is never re-entered.
ScrapeFinished(r) == scrapeRes[r].kind \in {"throw", "nonjson", "json"}

C13_SingleAttemptInOrder ==
    \A r \in Reqs :
        /\ scrapeCalls[r] <= 1
        /\ aiCalls[r] <= 1
        /\ aiCalls[r] = 1 => scrapeCalls[r] = 1 /\ ScrapeFinished(r)
        /\ pc[r] \in {"scrapeFetch", "scrapeJson"} =>
              scrapeCalls[r] = 1 /\ aiCalls[r] = 0 /\ ~ScrapeFinished(r)
        /\ pc[r] \in {"aiFetch", "aiJson"} => aiCalls[r] = 1

C13_Witness ==
    \E r \in Reqs :
        /\ Done(r)
        /\ scrapeRes[r].kind = "throw"
        /\ scrapeCalls[r] = 1
        /\ aiCalls[r] = 1
        /\ aiRes[r].kind = "json"
        /\ resp[r].success

\* C14: in every success response the top-level confidence field is one of
\* 'high', 'medium' or 'low', whatever text the completion service returned.
ConfidenceLevels == {JStr("high"), JStr("medium"), JStr("low")}

C14_ConfidenceIsEnum ==
    \A r \in Reqs :
        Done(r) /\ resp[r].success => resp[r].confidence \in ConfidenceLevels

\* C15: in every success response each of the four username_flags
\* (numbers_heavy, no_profile_pic, random_characters, very_short) is a
\* boolean, whatever the parsed model output holds in username_flags.
C15_FlagsAreBoolean ==
    \A r \in Reqs :
        Done(r) /\ resp[r].success =>
            \A k \in FlagKeys \cup {"no_profile_pic"} :
                resp[r].profile[k].t = "bool"

\* C17: under any interleaving of two requests each request's response is
\* the one the handler gives when run alone on the same request, the same
\* configuration and the same replies of the two services; and a step of one
\* invocation changes no variable of the other (nor the configuration).
StepsOnly(r) ==
    \A q \in Reqs \ {r} :
        /\ pc'[q] = pc[q]
        /\ req'[q] = req[q]
        /\ profileUrl'[q] = profileUrl[q]
        /\ platform'[q] = platform[q]
        /\ usernameFromUrl'[q] = usernameFromUrl[q]
        /\ scrapedMarkdown'[q] = scrapedMarkdown[q]
        /\ scrapedLinks'[q] = scrapedLinks[q]
        /\ extractionPrompt'[q] = extractionPrompt[q]
        /\ extractedData'[q] = extractedData[q]
        /\ scrapeRes'[q] = scrapeRes[q]
        /\ aiRes'[q] = aiRes[q]
        /\ scrapeCalls'[q] = scrapeCalls[q]
        /\ aiCalls'[q] = aiCalls[q]
        /\ caught'[q] = caught[q]
        /\ resp'[q] = resp[q]

ResponseAsAlone ==
    \A r \in Reqs :
        Done(r) => resp[r] = RunAlone(env, req[r], scrapeRes[r], aiRes[r])

C17_InvocationsIndependent ==
    /\ []ResponseAsAlone
    /\ [][env' = env /\ \E r \in Reqs : StepsOnly(r)]_vars

C17_Witness ==
    /\ \A r \in Reqs : Done(r) /\ resp[r].success /\ aiRes[r].kind = "json"
    /\ \E r, q \in Reqs :
          /\ usernameFromUrl[r] # usernameFromUrl[q]
          /\ resp[r].profile # resp[q].profile
          /\ resp[r] = RunAlone(env, req[r], scrapeRes[r], aiRes[r])

\* C16: whatever exception reaches the outermost catch, the response is
\* status 500 with body {error: 'Internal server error'}; two requests that
\* failed with different exceptions have received identical responses.
C16_OuterCatchIsGeneric ==
    /\ \A r \in Reqs :
          caught[r] # "" =>
              /\ Done(r)
              /\ resp[r] = ErrorResponse(500, "Internal server error")
    /\ \A r, q \in Reqs :
          caught[r] # "" /\ caught[q] # "" => resp[r] = resp[q]

C16_Witness ==
    \E r, q \in Reqs :
        /\ caught[r] = ErrSlice
        /\ caught[q] = ErrMatch
        /\ resp[r] = resp[q]
        /\ resp[r].status = 500

\* C18: when the completion text parses, the extracted record is the shallow
\* merge of the parsed object over the default: each top-level field holds
\* the parsed object's value if the parsed object has the field and the
\* default's value otherwise (username_flags is replaced as a whole).
ParsedOk(r) ==
    /\ Done(r)
    /\ aiRes[r].kind = "json"
    /\ ~aiRes[r].payload.isNull
    /\ aiRes[r].payload.content.t = "str"
    /\ IsValidJSON(StripFences(aiRes[r].payload.content.s))

ParsedOf(r) == JSONParse(StripFences(aiRes[r].payload.content.s))

C18_ShallowMerge ==
    \A r \in Reqs : ParsedOk(r) =>
        LET parsed == ParsedOf(r)
            def    == DefaultExtracted(usernameFromUrl[r], platform[r])
        IN  /\ \A k \in TopKeys :
                  extractedData[r].top[k] =
                      IF parsed.top[k].t # "absent" THEN parsed.top[k]
                      ELSE def.top[k]
            /\ extractedData[r].uf =
                  IF parsed.top["username_flags"].t # "absent" THEN parsed.uf
                  ELSE def.uf

C18_Witness ==
    \E r \in Reqs :
        /\ ParsedOk(r)
        /\ ParsedOf(r).top["username_flags"].t = "obj"
        /\ ParsedOf(r).uf["very_short"] = JBool(TRUE)
        /\ extractedData[r].uf["numbers_heavy"] = JAbsent
        /\ ParsedOf(r).top["confidence"] = JAbsent
        /\ extractedData[r].top["confidence"] = JStr("low")
        /\ extractedData[r].top["username"] = JStr(usernameFromUrl[r])

\* C19: model text that is a valid JSON object wrapped in code-fence markers,
\* with a language label or without one, yields the same extracted record as
\* the same JSON object returned without fences.
FencedForms(t) ==
    {FencedJson(t), FencedBare(t), FencedTight(t), FencedOtherLabel(t)}

WrappedObjects == {t \in WrappedTexts : IsValidJSON(t) /\ JSONParse(t).kind = "obj"}

C19_FencedSameAsUnfenced ==
    \A r \in Reqs : \A t \in WrappedObjects :
        /\ Done(r)
        /\ aiRes[r].kind = "json"
        /\ ~aiRes[r].payload.isNull
        /\ aiRes[r].payload.content.t = "str"
        /\ aiRes[r].payload.content.s \in FencedForms(t)
        => extractedData[r] =
              ExtractFromPayload(DefaultExtracted(usernameFromUrl[r], platform[r]),
                                 [isNull |-> FALSE, content |-> JStr(t)])

\* C20: the username of a success response is the extracted record's
\* username when that is a non-empty string and the URL-derived username
\* otherwise, and numbers_heavy and very_short follow the digit count and
\* the length of that resolved username (together with the model's flag).
ExpectedUsername(r) ==
    LET e == extractedData[r].top["username"]
    IN  IF e.t = "str" /\ e.s # "" THEN e.s ELSE usernameFromUrl[r]

C20_ResolvedUsername ==
    \A r \in Reqs : Done(r) /\ resp[r].success =>
        LET u == ExpectedUsername(r)
        IN  /\ resp[r].profile["username"] = JStr(u)
            /\ DigitCount(u) >= 4 => resp[r].profile["numbers_heavy"] = JBool(TRUE)
            /\ Len(u) <= 3 => resp[r].profile["very_short"] = JBool(TRUE)
            /\ DigitCount(u) < 4 /\ ~Truthy(ModelFlag(extractedData[r], "numbers_heavy"))
                  => resp[r].profile["numbers_heavy"] = JBool(FALSE)
            /\ Len(u) > 3 /\ ~Truthy(ModelFlag(extractedData[r], "very_short"))
                  => resp[r].profile["very_short"] = JBool(FALSE)

C20_Witness ==
    \E r \in Reqs :
        /\ Done(r)
        /\ resp[r].success
        /\ extractedData[r].top["username"] = JStr("abc")
        /\ usernameFromUrl[r] = "john1234"
        /\ resp[r].profile["username"] = JStr("abc")
        /\ resp[r].profile["very_short"] = JBool(TRUE)
        /\ resp[r].profile["numbers_heavy"] = JBool(FALSE)

C20_WitnessFallback ==
    \E r \in Reqs :
        /\ Done(r)
        /\ resp[r].success
        /\ extractedData[r].top["username"] \in {JStr(""), JNull, JInt(0)}
        /\ resp[r].profile["username"] = JStr(usernameFromUrl[r])
        /\ DigitCount(usernameFromUrl[r]) >= 4
        /\ resp[r].profile["numbers_heavy"] = JBool(TRUE)

\* C21: for a parseable URL extractUsername selects the first non-empty path
\* segment that is neither in the stoplist nor starts with '@'; when no such
\* segment exists it selects the first non-empty path segment; the path
\* /user/janedoe123 gives 'janedoe123'.
Eligible(p) ==
    /\ p \notin {"user", "users", "u", "profile", "in", "channel", "c"}
    /\ CharAt(p, 1) # "@"

SelectionRule(parts, sel) ==
    IF \E i \in 1..Len(parts) : Eligible(parts[i])
    THEN \E i \in 1..Len(parts) :
            /\ sel = parts[i]
            /\ Eligible(parts[i])
            /\ \A j \in 1..(i - 1) : ~Eligible(parts[j])
    ELSE Len(parts) > 0 => sel = parts[1]

HasScrapeUrl(r) == PipelineRan(r) /\ UrlParses(profileUrl[r].s)

C21_SelectedSegment ==
    \A r \in Reqs : HasScrapeUrl(r) =>
        LET parts == PathParts(profileUrl[r].s)
        IN  /\ \A i \in 1..Len(parts) : parts[i] # ""
            /\ SelectionRule(parts, SelectSegment(parts))
            /\ usernameFromUrl[r] = StripAt(SelectSegment(parts))
            /\ parts = <<"user", "janedoe123">> => usernameFromUrl[r] = "janedoe123"

C21_Witness ==
    \E r \in Reqs :
        /\ HasScrapeUrl(r)
        /\ PathParts(profileUrl[r].s) = <<"user", "janedoe123">>
        /\ usernameFromUrl[r] = "janedoe123"

C21_WitnessFallback ==
    \E r \in Reqs :
        /\ HasScrapeUrl(r)
        /\ PathParts(profileUrl[r].s) = <<"u", "@bob">>
        /\ usernameFromUrl[r] = "u"

\* C22: the value returned by extractUsername is the selected segment with
\* a single leading '@' removed when it has one, and the selected segment
\* itself, character for character, when it does not start with '@'.
LeadingAtRemoved(sel) ==
    IF StartsWith(sel, "@") THEN SubSeq(sel, 2, Len(sel)) ELSE sel

C22_LeadingAtStripped ==
    \A r \in Reqs : HasScrapeUrl(r) =>
        usernameFromUrl[r] =
            LeadingAtRemoved(SelectSegment(PathParts(profileUrl[r].s)))

\* C23: the scrape result is taken as successful exactly when the HTTP
\* status is OK and the payload's success flag is truthy; then markdown and
\* links are read from payload.data, falling back to the payload's top
\* level, and each is empty ('' / empty list) when absent.  Links are taken
\* only from a successful result.
ScrapeReplied(r) == scrapeRes[r].kind = "json" /\ ~scrapeRes[r].payload.isNull

ScrapeSucceeded(r) ==
    /\ ScrapeReplied(r)
    /\ scrapeRes[r].ok
    /\ scrapeRes[r].payload.success.t \notin {"absent", "null"}
    /\ scrapeRes[r].payload.success \notin {JBool(FALSE), JInt(0), JStr(""), JNaN}

FromDataOrTop(hasData, inData, atTop, empty) ==
    IF hasData /\ inData.t \notin {"absent", "null"} THEN inData
    ELSE IF atTop.t \notin {"absent", "null"} THEN atTop
    ELSE empty

MarkdownOf(p) == FromDataOrTop(p.hasData, p.dMarkdown, p.markdown, JStr(""))

LinksOf(p) == FromDataOrTop(p.hasData, p.dLinks, p.links, JArr("", 0))

C23_ScrapeSuccessPolicy ==
    \A r \in Reqs : ScrapeReplied(r) =>
        /\ ScrapeSucceeded(r) =>
              /\ scrapedMarkdown[r] = MarkdownOf(scrapeRes[r].payload)
              /\ scrapedLinks[r] = LinksOf(scrapeRes[r].payload)
        /\ ~ScrapeSucceeded(r) => scrapedLinks[r] = JArr("", 0)

C23_Witness ==
    \E r \in Reqs :
        /\ ScrapeSucceeded(r)
        /\ scrapeRes[r].payload.success = JStr("yes")
        /\ scrapedMarkdown[r] = JStr("page")
        /\ scrapedLinks[r] = JArr("", 0)
        /\ aiCalls[r] = 1

C23_WitnessTopLevel ==
    \E r \in Reqs :
        /\ ScrapeSucceeded(r)
        /\ ~scrapeRes[r].payload.hasData
        /\ scrapedMarkdown[r] = JStr("bio")
        /\ scrapedLinks[r] = JArr("a", 1)

\* C24: when the scrape service answers a JSON payload but the status is not
\* OK or the success flag is false, the markdown present in the payload is
\* the scraped content of the extraction prompt, the link list stays empty,
\* and the pipeline continues to the completion call.
C24_PartialScrapeContinues ==
    \A r \in Reqs : ScrapeReplied(r) /\ ~ScrapeSucceeded(r) =>
        /\ scrapedMarkdown[r] = MarkdownOf(scrapeRes[r].payload)
        /\ scrapedLinks[r] = JArr("", 0)
        /\ aiCalls[r] = 1
        /\ extractionPrompt[r].markdown = SlicedMarkdown(scrapedMarkdown[r])
        /\ extractionPrompt[r].links = 0

\* C25: the scrape outcome reaches the response only through the completion
\* service: two requests with the same url whose completion calls got the
\* same reply, or both failed, have identical responses, whatever their
\* scrape calls returned and however they failed.
AiCallFailed(r) ==
    \/ aiRes[r].kind \in {"throw", "nonjson"}
    \/ aiRes[r].kind = "status" /\ ~aiRes[r].ok

SameCompletion(r, q) ==
    /\ Done(r) /\ Done(q)
    /\ aiCalls[r] = 1 /\ aiCalls[q] = 1
    /\ req[r].body.url = req[q].body.url
    /\ \/ AiCallFailed(r) /\ AiCallFailed(q)
       \/ aiRes[r].kind = "json" /\ aiRes[r] = aiRes[q]

C25_ScrapeOnlyThroughCompletion ==
    \A r, q \in Reqs : SameCompletion(r, q) => resp[r] = resp[q]

C25_Witness ==
    \E r, q \in Reqs :
        /\ SameCompletion(r, q)
        /\ aiRes[r].kind = "json"
        /\ scrapeRes[r].kind = "throw"
        /\ scrapeRes[q].kind = "json"
        /\ scrapedMarkdown[q] # scrapedMarkdown[r]
        /\ extractionPrompt[q] # extractionPrompt[r]
        /\ resp[r].success
        /\ resp[r].confidence = JStr("medium")
        /\ resp[r] = resp[q]

\* C26: the top-level platform of a success response is detectPlatform(url)
\* whenever extraction degraded to the default or the parsed model object
\* has no platform field, and the model's value when the parsed object has
\* a platform field.
ModelGavePlatform(r) ==
    ParsedOk(r) /\ ParsedOf(r).top["platform"].t # "absent"

C26_PlatformOfResponse ==
    \A r \in Reqs : Done(r) /\ resp[r].success =>
        IF ModelGavePlatform(r)
        THEN resp[r].platform = ParsedOf(r).top["platform"]
        ELSE resp[r].platform = JStr(detectPlatform(req[r].body.url.s))

C26_Witness ==
    \E r \in Reqs :
        /\ Done(r)
        /\ resp[r].success
        /\ ModelGavePlatform(r)
        /\ detectPlatform(req[r].body.url.s) = "Instagram"
        /\ resp[r].platform = JStr("Myspace")

C26_WitnessDefault ==
    \E r \in Reqs :
        /\ Done(r)
        /\ resp[r].success
        /\ ParsedOk(r)
        /\ ~ModelGavePlatform(r)
        /\ resp[r].platform = JStr("TikTok")

\* C27: the precondition checks run in the order Authorization header,
\* token, url, scraping key, completion key, and the first check that fails
\* decides the response: a request failing several checks gets the error of
\* the earliest one, and the input of a later check is not even read.
CheckPasses(r, i) ==
    CASE i = 1 -> req[r].hasAuth
      [] i = 2 -> req[r].tokenOk
      [] i = 3 -> UrlGiven(r)
      [] i = 4 -> env.firecrawlKey
      [] i = 5 -> env.lovableKey

CheckFails(r, i) ==
    IF i = 3 THEN BodyParsed(r) /\ ~UrlGiven(r) ELSE ~CheckPasses(r, i)

CheckError(i) ==
    CASE i = 1 -> ErrorResponse(401, "Unauthorized")
      [] i = 2 -> ErrorResponse(401, "Invalid token")
      [] i = 3 -> ErrorResponse(400, "Profile URL is required")
      [] i = 4 -> ErrorResponse(500, "Firecrawl not configured")
      [] i = 5 -> ErrorResponse(500, "AI gateway not configured")

C27_FirstFailingCheckDecides ==
    \A r \in Reqs : Done(r) /\ req[r].method = "POST" =>
        /\ \A i \in 1..5 :
              CheckFails(r, i) /\ (\A j \in 1..(i - 1) : CheckPasses(r, j))
                  => resp[r] = CheckError(i)
        /\ \A i \in 1..5 :
              resp[r] = CheckError(i) => \A j \in 1..(i - 1) : CheckPasses(r, j)
        /\ ~(req[r].hasAuth /\ req[r].tokenOk) => req[r].body.kind = "none"

C27_Witness ==
    \E r \in Reqs :
        /\ Done(r)
        /\ CheckFails(r, 3) /\ CheckFails(r, 4) /\ CheckFails(r, 5)
        /\ resp[r] = CheckError(3)

C27_WitnessHeader ==
    \E r \in Reqs :
        /\ Done(r)
        /\ req[r].method = "POST"
        /\ CheckFails(r, 1) /\ CheckFails(r, 4) /\ CheckFails(r, 5)
        /\ resp[r] = CheckError(1)

(***************************************************************************)
(* AuthProvider (src/unnamed/part_003).  One step per callback: the        *)
(* effect, the onAuthStateChange listener, the deferred timer, the         *)
(* continuations of fetchUserRole, initializeAuth and signOut after their  *)
(* awaits, and the effect's cleanup.  The scrape-profile handler is idle.  *)
(***************************************************************************)
\* what the user_roles query gave: it threw, returned no row, or a row
RoleOutcomes == {"throw", "none", "user", "admin"}

\* data?.role ?? 'user', and 'user' in the catch
RoleFrom(outcome) == IF outcome = "admin" THEN "admin" ELSE "user"

\* lines 42 and 44: if (isMounted.current) setUserRole(...)
SetFetchedRole(outcome) ==
    IF isMounted THEN userRole' = RoleFrom(outcome) ELSE UNCHANGED userRole

\* useEffect body, lines 49-84: subscribe, then start initializeAuth
Mount ==
    /\ initStep = "idle"
    /\ isMounted' = TRUE
    /\ subscribed' = TRUE
    /\ initStep' = "getSession"
    /\ UNCHANGED <<vars_handler, authState, timers, fetches, signOuts, eventsLeft>>

\* the onAuthStateChange listener, lines 53-66
AuthStateChange ==
    /\ subscribed
    /\ eventsLeft > 0
    /\ eventsLeft' = eventsLeft - 1
    /\ \E s \in Sessions :
          IF ~isMounted
          THEN UNCHANGED <<authState, timers>>
          ELSE /\ session' = s
               /\ user' = s.user
               /\ IF s.user # NoUser
                  THEN /\ timers' = [timers EXCEPT ![s.user] = @ + 1]
                       /\ UNCHANGED userRole
                  ELSE /\ userRole' = NoRole
                       /\ UNCHANGED timers
               /\ UNCHANGED loading
    /\ UNCHANGED <<vars_handler, isMounted, subscribed, initStep, fetches, signOuts>>

\* the setTimeout callback, lines 60-62
TimerFires ==
    \E u \in Users :
        /\ timers[u] > 0
        /\ timers' = [timers EXCEPT ![u] = @ - 1]
        /\ fetches' = IF isMounted THEN [fetches EXCEPT ![u] = @ + 1] ELSE fetches
        /\ UNCHANGED <<vars_handler, authState, isMounted, subscribed, initStep,
                       signOuts, eventsLeft>>

\* fetchUserRole after its await, for a query a timer started
RoleFetchSettles ==
    \E u \in Users, outcome \in RoleOutcomes :
        /\ fetches[u] > 0
        /\ fetches' = [fetches EXCEPT ![u] = @ - 1]
        /\ SetFetchedRole(outcome)
        /\ UNCHANGED <<vars_handler, user, session, loading, isMounted, subscribed,
                       initStep, timers, signOuts, eventsLeft>>

\* the finally block of initializeAuth, line 80
SettleLoading == IF isMounted THEN loading' = FALSE ELSE UNCHANGED loading

\* initializeAuth after getSession resolved, lines 72-78
GetSessionResolves ==
    /\ initStep = "getSession"
    /\ \E s \in Sessions :
          IF ~isMounted
          THEN /\ initStep' = "done"
               /\ SettleLoading
               /\ UNCHANGED <<user, session>>
          ELSE /\ session' = s
               /\ user' = s.user
               /\ IF s.user # NoUser
                  THEN initStep' = "fetchRole" /\ UNCHANGED loading
                  ELSE initStep' = "done" /\ SettleLoading
    /\ UNCHANGED <<vars_handler, userRole, isMounted, subscribed, timers, fetches,
                   signOuts, eventsLeft>>

\* an initializeAuth without the finally block
GetSessionRejectsNoFinally ==
    /\ initStep = "getSession"
    /\ initStep' = "done"
    /\ UNCHANGED <<vars_handler, authState, isMounted, subscribed,
                   timers, fetches, signOuts, eventsLeft>>

\* initializeAuth when getSession rejected: only the finally block runs
GetSessionRejects ==
    /\ initStep = "getSession"
    /\ initStep' = "done"
    /\ SettleLoading
    /\ UNCHANGED <<vars_handler, user, session, userRole, isMounted, subscribed,
                   timers, fetches, signOuts, eventsLeft>>

\* fetchUserRole after its await, called from initializeAuth (line 77)
InitFetchSettles ==
    /\ initStep = "fetchRole"
    /\ \E outcome \in RoleOutcomes : SetFetchedRole(outcome)
    /\ initStep' = "finally"
    /\ UNCHANGED <<vars_handler, user, session, loading, isMounted, subscribed,
                   timers, fetches, signOuts, eventsLeft>>

\* initializeAuth after `await fetchUserRole(...)`: the finally block
InitFinally ==
    /\ initStep = "finally"
    /\ initStep' = "done"
    /\ SettleLoading
    /\ UNCHANGED <<vars_handler, user, session, userRole, isMounted, subscribed,
                   timers, fetches, signOuts, eventsLeft>>

\* signOut is called, line 93
SignOutCall ==
    /\ initStep # "idle"
    /\ signOuts < MaxSignOuts
    /\ signOuts' = signOuts + 1
    /\ UNCHANGED <<vars_handler, authState, isMounted, subscribed, initStep, timers,
                   fetches, eventsLeft>>

\* signOut after its await, lines 94-98; nothing is cleared when the call
\* rejected
SignOutReturns ==
    /\ signOuts > 0
    /\ signOuts' = signOuts - 1
    /\ \E ok \in BOOLEAN :
          IF ok /\ isMounted
          THEN user' = NoUser /\ session' = NoSession /\ userRole' = NoRole
          ELSE UNCHANGED <<user, session, userRole>>
    /\ UNCHANGED <<vars_handler, loading, isMounted, subscribed, initStep, timers,
                   fetches, eventsLeft>>

\* the effect's cleanup, lines 86-89
Unmount ==
    /\ initStep # "idle"
    /\ isMounted
    /\ isMounted' = FALSE
    /\ subscribed' = FALSE
    /\ UNCHANGED <<vars_handler, authState, initStep, timers, fetches, signOuts,
                   eventsLeft>>

\* ProtectedRoute: children is rendered under the role check below
ProtectedRouteNoRoleCheck(requiredRole) ==
    IF loading THEN "spinner"
    ELSE IF user = NoUser THEN "login"
    ELSE "children"

\* ProtectedRoute, lines 10-31: what it renders in the current auth state
ProtectedRoute(requiredRole) ==
    IF loading THEN "spinner"
    ELSE IF user = NoUser THEN "login"
    ELSE IF requiredRole = "admin" /\ userRole # "admin" THEN "dashboard"
    ELSE "children"

\* the requiredRole prop: undefined, 'user' or 'admin'
RequiredRoles == {"undefined", "user", "admin"}

InitAuth ==
    /\ AuthConstructed
    /\ env = [firecrawlKey |-> TRUE, lovableKey |-> TRUE]
    /\ pc = [r \in Reqs |-> "idle"]
    /\ req = [r \in Reqs |-> NoReq]
    /\ profileUrl = [r \in Reqs |-> JAbsent]
    /\ platform = [r \in Reqs |-> ""]
    /\ usernameFromUrl = [r \in Reqs |-> ""]
    /\ scrapedMarkdown = [r \in Reqs |-> EmptyMarkdown]
    /\ scrapedLinks = [r \in Reqs |-> EmptyLinks]
    /\ extractionPrompt = [r \in Reqs |-> NoPrompt]
    /\ extractedData = [r \in Reqs |-> NoExtracted]
    /\ scrapeRes = [r \in Reqs |-> NoScrapeRes]
    /\ aiRes = [r \in Reqs |-> NoAiRes]
    /\ scrapeCalls = [r \in Reqs |-> 0]
    /\ aiCalls = [r \in Reqs |-> 0]
    /\ caught = [r \in Reqs |-> ""]
    /\ resp = [r \in Reqs |-> NoResponse]

NextAuth ==
    \/ Mount
    \/ AuthStateChange
    \/ TimerFires
    \/ RoleFetchSettles
    \/ GetSessionResolves
    \/ GetSessionRejects
    \/ InitFetchSettles
    \/ InitFinally
    \/ SignOutCall
    \/ SignOutReturns
    \/ Unmount

\* every promise the provider awaits settles, and timers fire
SpecAuth ==
    /\ InitAuth
    /\ [][NextAuth]_vars
    /\ WF_vars(Mount)
    /\ WF_vars(GetSessionResolves \/ GetSessionRejects)
    /\ WF_vars(InitFetchSettles)
    /\ WF_vars(InitFinally)

\* C28: in AuthProvider, under every interleaving of auth events, the
\* initial session load, deferred and in-flight role fetches and signOut,
\* userRole is non-null only while user is non-null.
C28_RoleOnlyWhileSignedIn == userRole # NoRole => user # NoUser

\* C29: loading starts true; while the component stays mounted it becomes
\* false once the initial getSession (and the role fetch, when there is a
\* session) has settled, also when getSession rejects; once false it never
\* becomes true again; no auth state is written after unmount.
C29_LoadingSettles ==
    /\ loading = TRUE
    /\ [](isMounted /\ initStep = "done" => ~loading)
    /\ <>(~isMounted \/ ~loading)
    /\ [][loading' => loading]_vars
    /\ [][~isMounted => UNCHANGED authState]_vars

C29_Witness ==
    /\ isMounted
    /\ initStep = "done"
    /\ ~loading
    /\ user # NoUser
    /\ userRole = "admin"

C29_WitnessRejected ==
    /\ isMounted
    /\ initStep = "done"
    /\ ~loading
    /\ session = NoSession
    /\ eventsLeft = MaxEvents
    /\ signOuts = 0

\* C30: ProtectedRoute renders its children only where loading is false and
\* user is non-null and, when requiredRole is 'admin', userRole is 'admin';
\* in every other state it renders the spinner (loading), a redirect to
\* /login (no user) or a redirect to /dashboard (role is not admin).
MayEnter(requiredRole) ==
    /\ ~loading
    /\ user # NoUser
    /\ requiredRole = "admin" => userRole = "admin"

C30_ChildrenOnlyWhenAllowed ==
    \A rr \in RequiredRoles :
        /\ ProtectedRoute(rr) = "children" <=> MayEnter(rr)
        /\ loading => ProtectedRoute(rr) = "spinner"
        /\ ~loading /\ user = NoUser => ProtectedRoute(rr) = "login"
        /\ ~loading /\ user # NoUser /\ ~MayEnter(rr) =>
              /\ ProtectedRoute(rr) = "dashboard"
              /\ rr = "admin" /\ userRole # "admin"

C30_Witness ==
    /\ ~loading
    /\ user # NoUser
    /\ userRole = "user"
    /\ ProtectedRoute("admin") = "dashboard"
    /\ ProtectedRoute("user") = "children"
    /\ ProtectedRoute("undefined") = "children"

C30_WitnessAdmin ==
    /\ ~loading
    /\ user # NoUser
    /\ userRole = "admin"
    /\ ProtectedRoute("admin") = "children"

====
